---- MODULE Spec2Model ----
(***************************************************************************)
(* Model of the astroport-dca contract: the order store with its two       *)
(* secondary indices, the per-user tip jars, the configuration and the     *)
(* execute handlers (create / modify / cancel / purchase / tips / config). *)
(* Every handler is one atomic action: a call either commits all of its    *)
(* writes or, on an error, none of them (the host discards the writes of a *)
(* failed call).  The response of the last call is kept in `res`.          *)
(***************************************************************************)
EXTENDS Integers, Sequences, FiniteSets, TLC

\* ---------------------------------------------------------------- bounds
\* Latest block time (seconds) the model explores.
MaxTime == 2
\* Cap on the number of orders ever created (cap on dca_id).
MaxOrders == 1
\* Largest amount a caller puts in a message / attaches to a call.
MaxAmount == 2
\* Largest deposit of the specification of the amounts (an indivisible pair needs 3 and 2).
MaxDeposit == 3
\* Cap on the number of orders ever created in the specification of the ids.
MaxIds == 2
\* Scaled-down width of u64: values are 0 .. U64Max, `+` wraps modulo U64Max + 1.
U64Max == 7
\* Scaled-down width of Uint128: checked arithmetic fails above U128Max.
U128Max == 4

\* ---------------------------------------------------------------- values
\* Option::None for numeric options (start_purchase, max_hops, max_spread).
None == -1

Native(denom) == [kind |-> "native", id |-> denom]
Token(addr) == [kind |-> "token", id |-> addr]
ULUNA == Native("uluna")
TOK == Token("tok")
NoInfo == [kind |-> "none", id |-> "none"]
AssetInfos == {ULUNA, TOK}

\* Accounts that send messages; "tok" is the cw20 contract, "admin" the factory owner.
Users == {"alice", "bob"}
FactoryOwner == "admin"
RouterAddr == "router"

AssetOf(info, amount) == [info |-> info, amount |-> amount]
NoAsset == AssetOf(NoInfo, 0)

\* AssetInfo::is_native_token
is_native_token(info) == info.kind = "native"

\* SwapOperation: AstroSwap{offer_asset_info, ask_asset_info} | NativeSwap{offer_denom, ask_denom}
AstroSwap(offer, ask) == [op |-> "astro", offer |-> offer, ask |-> ask]
NativeSwap(offer, ask) == [op |-> "native", offer |-> Native(offer), ask |-> Native(ask)]
\* A faulty variant, which takes the asset the hop sells.
get_target_asset_info_of_offer(swap) == swap.offer
\* SwapOperation::get_target_asset_info
get_target_asset_info(swap) == swap.ask

SwapOps == {AstroSwap(ULUNA, TOK), AstroSwap(TOK, ULUNA), AstroSwap(ULUNA, ULUNA), NativeSwap("uluna", "uluna")}
MaxRouteLen == 2
Routes == UNION {[1..n -> SwapOps] : n \in 0..MaxRouteLen}

\* ---------------------------------------------------------------- messages
NoHops == <<>>
\* One outbound CosmosMsg; every kind uses the same record shape.
Msg(kind, contract, from, to, info, amount, hops, spread) ==
  [kind |-> kind, contract |-> contract, from |-> from, to |-> to,
   info |-> info, amount |-> amount, hops |-> hops, spread |-> spread]
BankSend(to, denom, amount) == Msg("bank_send", "bank", "dca", to, Native(denom), amount, NoHops, None)
Cw20Transfer(token, to, amount) == Msg("cw20_transfer", token, "dca", to, Token(token), amount, NoHops, None)
Cw20TransferFrom(token, owner, recipient, amount) ==
  Msg("cw20_transfer_from", token, owner, recipient, Token(token), amount, NoHops, None)
\* A faulty variant, which leaves max_spread to the router.
RouterSwapNoSpread(router, fundsInfo, fundsAmount, hops, to, spread) ==
  Msg("execute_swap_operations", router, "dca", to, fundsInfo, fundsAmount, hops, None)
\* A faulty variant, which sends the swap request without the coins.
RouterSwapWithoutFunds(router, fundsInfo, fundsAmount, hops, to, spread) ==
  Msg("execute_swap_operations", router, "dca", to, NoInfo, 0, hops, spread)
\* funds is the native info sent along (NoInfo when none) with its amount
RouterSwap(router, fundsInfo, fundsAmount, hops, to, spread) ==
  Msg("execute_swap_operations", router, "dca", to, fundsInfo, fundsAmount, hops, spread)

\* A faulty variant of asset_transfer, which sends every asset as a native coin.
asset_transfer_as_coin(info, amount, to) == BankSend(to, info.id, amount)
\* helpers::asset_transfer / Asset::into_msg
asset_transfer(info, amount, to) ==
  IF info.kind = "token" THEN Cw20Transfer(info.id, to, amount) ELSE BankSend(to, info.id, amount)

\* ---------------------------------------------------------------- arithmetic
\* Uint128::checked_add / checked_mul / checked_sub: an error instead of a wrapped value
checked_add_ok(a, b) == a + b <= U128Max
checked_mul_ok(a, b) == a * b <= U128Max
checked_sub_ok(a, b) == a >= b
\* u64 `+`: exact when the sum fits, otherwise the wrapped value (a build without overflow checks)
u64_overflows(a, b) == a + b > U64Max
u64_wrapping_add(a, b) == (a + b) % (U64Max + 1)

\* ---------------------------------------------------------------- maps
EmptyMap == [k \in {} |-> 0]
MapPut(m, k, v) == [x \in (DOMAIN m) \cup {k} |-> IF x = k THEN v ELSE m[x]]
MapDel(m, k) == [x \in (DOMAIN m) \ {k} |-> m[x]]
\* Vec::remove(index)
SeqRemove(s, i) == [j \in 1..(Len(s) - 1) |-> IF j < i THEN s[j] ELSE s[j + 1]]
\* position of the first element satisfying info = x, 0 when there is none (Iterator::find)
FindInfo(s, x) ==
  IF \E j \in 1..Len(s) : s[j].info = x
  THEN CHOOSE j \in 1..Len(s) : s[j].info = x /\ \A k \in 1..(j - 1) : s[k].info # x
  ELSE 0

\* AssetInfo::to_string (Display): the denom or the contract address
to_string(info) == info.id

\* ---------------------------------------------------------------- state
\* The contract's storage (struct State): one record, the fields named as in state.rs.
\*   config                 : Config
\*   whitelisted_tip_tokens : Vec<TipAssetInfo>
\*   dca_id                 : u64
\*   dca_requests           : primary map id -> DcaInfo
\*   idx_user               : MultiIndex dca_requests__user,  {<<user, id>>}
\*   idx_user_asset         : MultiIndex dca_requests__asset, {<<user, asset, id>>}
\*   tip_jars               : Addr -> Vec<Asset>, absent owners are not in the DOMAIN
VARIABLES
  now,        \* env.block.time.seconds()
  state,      \* the storage
  res,        \* the last call and its response
  assigned,   \* history: the ids handed out by successful creates, in creation order
  tip_net,    \* history: per owner and tip asset, amounts credited minus amounts paid out
  purchases   \* history: per order, its deposit and n = deposit / dca_amount as of its
              \* creation or last modification, the purchases made since (count), the
              \* amount they handed to the router (spent), and whether the order was ever
              \* modified; kept after the order is gone

vars == <<now, state, res, assigned, tip_net, purchases>>

TipAssetInfo(info, fee) == [info |-> info, per_hop_fee |-> fee]

\* A faulty variant, which stores the interval as the time of the last purchase.
DcaInfoBackdated(id, initial_asset, target_asset, interval, last_purchase, start_purchase, dca_amount, max_hops, max_spread, user) ==
  [id |-> id, initial_asset |-> initial_asset, target_asset |-> target_asset,
   interval |-> interval, last_purchase |-> interval, start_purchase |-> start_purchase,
   dca_amount |-> dca_amount, max_hops |-> max_hops, max_spread |-> max_spread, user |-> user]

\* struct DcaInfo
DcaInfo(id, initial_asset, target_asset, interval, last_purchase, start_purchase, dca_amount, max_hops, max_spread, user) ==
  [id |-> id, initial_asset |-> initial_asset, target_asset |-> target_asset,
   interval |-> interval, last_purchase |-> last_purchase, start_purchase |-> start_purchase,
   dca_amount |-> dca_amount, max_hops |-> max_hops, max_spread |-> max_spread, user |-> user]

\* DcaRequestsIndexes: the index entries of one order
UserIndexKey(d) == <<d.user, d.id>>
UserAssetIndexKey(d) == <<d.user, to_string(d.initial_asset.info), d.id>>

\* A faulty variant of the save, which keeps the order already stored under the id.
IndexedMapSaveIfAbsent(st, id, d) ==
  IF id \in DOMAIN st.dca_requests THEN st
  ELSE [st EXCEPT !.dca_requests = MapPut(st.dca_requests, id, d),
                  !.idx_user = @ \cup {UserIndexKey(d)},
                  !.idx_user_asset = @ \cup {UserAssetIndexKey(d)}]

\* IndexedMap::save: replace the old index entries of the id by those of the new data
IndexedMapSave(st, id, d) ==
  LET old == IF id \in DOMAIN st.dca_requests THEN {st.dca_requests[id]} ELSE {}
  IN [st EXCEPT !.dca_requests = MapPut(st.dca_requests, id, d),
                !.idx_user = (@ \ {UserIndexKey(o) : o \in old}) \cup {UserIndexKey(d)},
                !.idx_user_asset = (@ \ {UserAssetIndexKey(o) : o \in old}) \cup {UserAssetIndexKey(d)}]

\* A faulty variant of the removal, which leaves the index entries behind.
IndexedMapRemovePrimaryOnly(st, id) ==
  [st EXCEPT !.dca_requests = MapDel(st.dca_requests, id)]

\* IndexedMap::remove: drop the entry and its index entries
IndexedMapRemove(st, id) ==
  LET old == IF id \in DOMAIN st.dca_requests THEN {st.dca_requests[id]} ELSE {}
  IN [st EXCEPT !.dca_requests = MapDel(st.dca_requests, id),
                !.idx_user = @ \ {UserIndexKey(o) : o \in old},
                !.idx_user_asset = @ \ {UserAssetIndexKey(o) : o \in old}]

\* The outcome of a handler: the error ("Ok" on success), the storage to commit,
\* the outbound messages and the event.  A failed call commits nothing.
Ok(st, msgs, event) == [err |-> "Ok", st |-> st, msgs |-> msgs, event |-> event]
Err(st, err) == [err |-> err, st |-> st, msgs |-> <<>>, event |-> ""]
\* the "id" attribute of a response that carries one
IdAttr(out) == IF out.err = "Ok" THEN out.st.dca_id ELSE 0

\* The response of a call as recorded in `res`.
Result(op, sender, id, asset, funds, err, msgs, event) ==
  [op |-> op, sender |-> sender, id |-> id, asset |-> asset, funds |-> funds,
   err |-> err, msgs |-> msgs, event |-> event]

\* contract::instantiate with the parameters the tests use (setup_test)
InitState ==
  [config |-> [max_hops |-> 2, max_spread |-> 1, whitelisted_tokens |-> <<ULUNA>>,
               factory_addr |-> "factory", router_addr |-> RouterAddr],
   whitelisted_tip_tokens |-> <<TipAssetInfo(ULUNA, 1), TipAssetInfo(TOK, 2)>>,
   dca_id |-> 0,
   dca_requests |-> EmptyMap,
   idx_user |-> {},
   idx_user_asset |-> {},
   tip_jars |-> EmptyMap]

Init ==
  /\ now = 1
  /\ state = InitState
  /\ res = Result("instantiate", "deployer", 0, NoAsset, 0, "Ok", <<>>, "")
  /\ assigned = <<>>
  /\ tip_net = [u \in Users |-> [a \in AssetInfos |-> 0]]
  /\ purchases = EmptyMap

\* ---------------------------------------------------------------- funding
\* MessageInfo.funds: the model attaches coins of the one native denom "uluna" only;
\* `funds` is their amount (0: no coin attached).
SentCoins(funds, denom) == IF denom = "uluna" THEN funds ELSE 0

\* A faulty variant, which is content with coins that cover the amount.
assert_sent_native_token_balance_at_least(asset, funds) ==
  IF is_native_token(asset.info) THEN asset.amount <= SentCoins(funds, asset.info.id) ELSE TRUE

\* Asset::assert_sent_native_token_balance: a native asset must equal the attached coin of
\* its denom (no such coin: the amount must be zero); a token asset always passes.
assert_sent_native_token_balance(asset, funds) ==
  IF is_native_token(asset.info) THEN asset.amount = SentCoins(funds, asset.info.id) ELSE TRUE

\* ---------------------------------------------------------------- create
\* A faulty variant, which derives the id from the number of stored orders.
get_next_order_id_from_count(st) == Cardinality(DOMAIN st.dca_requests) + 1

\* State::get_next_order_id: load, checked_add(1), save
get_next_order_id(st) == st.dca_id + 1

\* A faulty variant, which accepts every remainder.
checked_rem_is_zero_skipped(amount, dca_amount) == TRUE

\* initial_asset.amount.checked_rem(dca_amount) .. is_zero(), the divisor being nonzero
checked_rem_is_zero(amount, dca_amount) == amount % dca_amount = 0

\* A faulty variant of create_dca_order, which compares the amounts before the assets.
create_dca_order_amounts_first(st, t, sender, funds, allowance, m) ==
  IF m.start_purchase # None /\ m.start_purchase < t THEN Err(st, "StartTimeInPast")
  ELSE IF m.dca_amount > m.initial_asset.amount THEN Err(st, "DepositTooSmall")
  ELSE IF m.initial_asset.info = m.target_asset THEN Err(st, "DuplicateAsset")
  ELSE IF m.dca_amount = 0 THEN Err(st, "DivideByZero")
  ELSE IF ~checked_rem_is_zero(m.initial_asset.amount, m.dca_amount)
       THEN Err(st, "IndivisibleDeposit")
  ELSE IF is_native_token(m.initial_asset.info)
          /\ ~assert_sent_native_token_balance(m.initial_asset, funds)
       THEN Err(st, "NativeTokenMismatch")
  ELSE IF ~is_native_token(m.initial_asset.info) /\ allowance < m.initial_asset.amount
       THEN Err(st, "InvalidTokenDeposit")
  ELSE IF st.dca_id + 1 > U64Max THEN Err(st, "CouldNotCalculateOrderId")
  ELSE
    LET order_id == get_next_order_id(st)
        order == DcaInfo(order_id, m.initial_asset, m.target_asset, m.interval, 0,
                         m.start_purchase, m.dca_amount, m.max_hops, m.max_spread, sender)
    IN Ok(IndexedMapSave([st EXCEPT !.dca_id = order_id], order_id, order), <<>>, "")

\* handlers::create_dca_order.  t: block time, sender/funds: MessageInfo,
\* allowance: the answer of the cw20 allowance query, m: the CreateDcaOrder message.
create_dca_order(st, t, sender, funds, allowance, m) ==
  IF m.start_purchase # None /\ m.start_purchase < t THEN Err(st, "StartTimeInPast")
  ELSE IF m.initial_asset.info = m.target_asset THEN Err(st, "DuplicateAsset")
  ELSE IF m.dca_amount > m.initial_asset.amount THEN Err(st, "DepositTooSmall")
  ELSE IF m.dca_amount = 0 THEN Err(st, "DivideByZero")
  ELSE IF ~checked_rem_is_zero(m.initial_asset.amount, m.dca_amount)
       THEN Err(st, "IndivisibleDeposit")
  ELSE IF is_native_token(m.initial_asset.info)
          /\ ~assert_sent_native_token_balance(m.initial_asset, funds)
       THEN Err(st, "NativeTokenMismatch")
  ELSE IF ~is_native_token(m.initial_asset.info) /\ allowance < m.initial_asset.amount
       THEN Err(st, "InvalidTokenDeposit")
  ELSE IF st.dca_id + 1 > U64Max THEN Err(st, "CouldNotCalculateOrderId")
  ELSE
    LET order_id == get_next_order_id(st)
        order == DcaInfo(order_id, m.initial_asset, m.target_asset, m.interval, 0,
                         m.start_purchase, m.dca_amount, m.max_hops, m.max_spread, sender)
    IN Ok(IndexedMapSave([st EXCEPT !.dca_id = order_id], order_id, order), <<>>, "")

\* ---------------------------------------------------------------- purchase
\* A faulty variant, which takes every asset as whitelisted.
is_whitelisted_asset_always(cfg, info) == TRUE

\* Config::is_whitelisted_asset
is_whitelisted_asset(cfg, info) == \E j \in 1..Len(cfg.whitelisted_tokens) : cfg.whitelisted_tokens[j] = info

\* The ask asset at which the loop over the hops before the last returns: that of the
\* first such hop that buys a non-whitelisted asset.
FirstOffendingAsk(cfg, hops) ==
  LET bad == {j \in 1..(Len(hops) - 1) : ~is_whitelisted_asset(cfg, hops[j].ask)}
  IN hops[CHOOSE j \in bad : \A k \in bad : j <= k].ask

\* ContractError::InvalidHopRoute { token }
InvalidHopRoute(st, token) ==
  [err |-> "InvalidHopRoute", st |-> st, msgs |-> <<>>, event |-> "", token |-> token]
\* ContractError::MaxHopsAssertion { hops }
MaxHopsAssertion(st, hops) ==
  [err |-> "MaxHopsAssertion", st |-> st, msgs |-> <<>>, event |-> "", hops |-> hops]

\* A faulty variant of the loop, which gives up after the entry at `index`.
TipJarLoopFirstEntry(jars, wl, hops_len, index) ==
  LET w == IF index > Len(jars) THEN 0 ELSE FindInfo(wl, jars[index].info)
  IN IF w # 0 /\ wl[w].per_hop_fee * hops_len <= jars[index].amount
     THEN [err |-> "Ok", index |-> index, cost |-> wl[w].per_hop_fee * hops_len]
     ELSE [err |-> "InsufficientTipBalance", index |-> 0, cost |-> 0]

\* The loop of take_payment_from_tip_jar from position `index` on: the first jar whose
\* asset is a whitelisted tip token and whose amount covers per_hop_fee * hops_len.
\* Returns the error ("Ok": jar `index` pays `cost`).
RECURSIVE TipJarLoop(_, _, _, _)
TipJarLoop(jars, wl, hops_len, index) ==
  IF index > Len(jars) THEN [err |-> "InsufficientTipBalance", index |-> 0, cost |-> 0]
  ELSE
    LET w == FindInfo(wl, jars[index].info)
    IN IF w = 0 THEN TipJarLoop(jars, wl, hops_len, index + 1)
       ELSE IF ~checked_mul_ok(wl[w].per_hop_fee, hops_len)
            THEN [err |-> "OverflowError", index |-> 0, cost |-> 0]
       ELSE IF wl[w].per_hop_fee * hops_len <= jars[index].amount
            THEN [err |-> "Ok", index |-> index, cost |-> wl[w].per_hop_fee * hops_len]
       ELSE TipJarLoop(jars, wl, hops_len, index + 1)

\* A faulty variant of take_payment_from_tip_jar, which pays without saving the debit.
take_payment_from_tip_jar_unsaved(st, user, hops_len) ==
  IF user \notin DOMAIN st.tip_jars
  THEN [err |-> "NoTipBalance", st |-> st, payment |-> NoAsset]
  ELSE
    LET jars == st.tip_jars[user]
        r == TipJarLoop(jars, st.whitelisted_tip_tokens, hops_len, 1)
    IN IF r.err # "Ok" THEN [err |-> r.err, st |-> st, payment |-> NoAsset]
       ELSE [err |-> "Ok", st |-> st, payment |-> AssetOf(jars[r.index].info, r.cost)]

\* A faulty variant of take_payment_from_tip_jar, which keeps a jar that the payment has
\* emptied.
take_payment_from_tip_jar_keeps_empty_jar(st, user, hops_len) ==
  IF user \notin DOMAIN st.tip_jars
  THEN [err |-> "NoTipBalance", st |-> st, payment |-> NoAsset]
  ELSE
    LET jars == st.tip_jars[user]
        r == TipJarLoop(jars, st.whitelisted_tip_tokens, hops_len, 1)
    IN IF r.err # "Ok" THEN [err |-> r.err, st |-> st, payment |-> NoAsset]
       ELSE
         LET left == jars[r.index].amount - r.cost
             jars2 == [jars EXCEPT ![r.index].amount = left]
         IN [err |-> "Ok", st |-> [st EXCEPT !.tip_jars = MapPut(@, user, jars2)],
             payment |-> AssetOf(jars[r.index].info, r.cost)]

\* A faulty variant of take_payment_from_tip_jar, which saves the debited jars as the only
\* ledger there is.
take_payment_from_tip_jar_alone(st, user, hops_len) ==
  IF user \notin DOMAIN st.tip_jars
  THEN [err |-> "NoTipBalance", st |-> st, payment |-> NoAsset]
  ELSE
    LET jars == st.tip_jars[user]
        r == TipJarLoop(jars, st.whitelisted_tip_tokens, hops_len, 1)
    IN IF r.err # "Ok" THEN [err |-> r.err, st |-> st, payment |-> NoAsset]
       ELSE
         LET left == jars[r.index].amount - r.cost
             jars2 == IF left = 0 THEN SeqRemove(jars, r.index)
                      ELSE [jars EXCEPT ![r.index].amount = left]
         IN [err |-> "Ok", st |-> [st EXCEPT !.tip_jars = MapPut(EmptyMap, user, jars2)],
             payment |-> AssetOf(jars[r.index].info, r.cost)]

\* take_payment_from_tip_jar: debit the chosen jar, drop it when emptied, save the jars.
\* payment is the Asset handed to the caller of the purchase.
take_payment_from_tip_jar(st, user, hops_len) ==
  IF user \notin DOMAIN st.tip_jars
  THEN [err |-> "NoTipBalance", st |-> st, payment |-> NoAsset]
  ELSE
    LET jars == st.tip_jars[user]
        r == TipJarLoop(jars, st.whitelisted_tip_tokens, hops_len, 1)
    IN IF r.err # "Ok" THEN [err |-> r.err, st |-> st, payment |-> NoAsset]
       ELSE
         LET left == jars[r.index].amount - r.cost
             jars2 == IF left = 0 THEN SeqRemove(jars, r.index)
                      ELSE [jars EXCEPT ![r.index].amount = left]
         IN [err |-> "Ok", st |-> [st EXCEPT !.tip_jars = MapPut(@, user, jars2)],
             payment |-> AssetOf(jars[r.index].info, r.cost)]

\* A faulty variant, which takes every start time as reached.
StartsLaterNever(order, t) == FALSE

\* The first timing check: the order has a start_purchase and it is after block time t.
StartsLater(order, t) == order.start_purchase # None /\ order.start_purchase > t

\* The sum last_purchase + interval of the timing gate, a plain u64 `+`.
PurchaseGateSum(order) == u64_wrapping_add(order.last_purchase, order.interval)

\* A faulty variant, which does not subtract dca_amount.
PurchaseUpdateKeepsAmount(order, t) == [order EXCEPT !.last_purchase = t]

\* A faulty variant, which does not stamp the purchase.
PurchaseUpdateKeepsTime(order, t) == [order EXCEPT !.initial_asset.amount = @ - order.dca_amount]

\* The order after a purchase at time t: the deposit less dca_amount, last_purchase = t.
PurchaseUpdate(order, t) ==
  [order EXCEPT !.initial_asset.amount = @ - order.dca_amount, !.last_purchase = t]

\* A faulty variant, which caps the order's max_hops by the contract's.
order_max_hops_capped(order, cfg) ==
  IF order.max_hops # None /\ order.max_hops < cfg.max_hops THEN order.max_hops ELSE cfg.max_hops
\* order.max_hops.unwrap_or(config.max_hops)
order_max_hops(order, cfg) == IF order.max_hops # None THEN order.max_hops ELSE cfg.max_hops

\* handlers::perform_dca_purchase.  sender is the bot; build selects what an overflowing
\* u64 addition does in the compiled contract.
perform_dca_purchase(st, t, sender, id, hops, build) ==
  IF id \notin DOMAIN st.dca_requests THEN Err(st, "NonExistentDca")
  ELSE
    LET order == st.dca_requests[id]
        cfg == st.config
        hops_len == Len(hops)
        max_hops == order_max_hops(order, cfg)
        max_spread == IF order.max_spread # None THEN order.max_spread ELSE cfg.max_spread
    IN
    IF hops_len = 0 THEN Err(st, "EmptyHopRoute")
    ELSE IF hops_len > max_hops THEN MaxHopsAssertion(st, hops_len)
    ELSE IF \E j \in 1..hops_len : hops[j].op = "native" THEN Err(st, "NativeSwapNotSupported")
    ELSE IF \E j \in 1..(hops_len - 1) : ~is_whitelisted_asset(cfg, hops[j].ask)
         THEN InvalidHopRoute(st, to_string(FirstOffendingAsk(cfg, hops)))
    ELSE IF StartsLater(order, t) THEN Err(st, "PurchaseTooEarly")
    ELSE IF order.last_purchase > 0 /\ u64_overflows(order.last_purchase, order.interval)
            /\ build = "panic"
         THEN Err(st, "Panic")
    ELSE IF order.last_purchase > 0 /\ PurchaseGateSum(order) > t THEN Err(st, "PurchaseTooEarly")
    ELSE IF get_target_asset_info(hops[hops_len]) # order.target_asset THEN Err(st, "TargetAssetAssertion")
    ELSE IF ~checked_sub_ok(order.initial_asset.amount, order.dca_amount) THEN Err(st, "InsufficientBalance")
    ELSE
      LET tip == take_payment_from_tip_jar(st, order.user, hops_len)
      IN IF tip.err # "Ok" THEN Err(st, tip.err)
         ELSE
           LET order2 == PurchaseUpdate(order, t)
               info == order.initial_asset.info
               transfer_from == IF info.kind = "token"
                                THEN <<Cw20TransferFrom(info.id, order.user, cfg.router_addr, order.dca_amount)>>
                                ELSE <<>>
               swap == IF is_native_token(info)
                       THEN RouterSwap(cfg.router_addr, info, order.dca_amount, hops, order.user, max_spread)
                       ELSE RouterSwap(cfg.router_addr, NoInfo, 0, hops, order.user, max_spread)
               payment == asset_transfer(tip.payment.info, tip.payment.amount, sender)
               msgs == transfer_from \o <<swap, payment>>
           IN IF order2.initial_asset.amount = 0
              THEN Ok(IndexedMapRemove(tip.st, id), msgs, "perform-finished")
              ELSE Ok(IndexedMapSave(tip.st, id, order2), msgs, "perform-executed")

\* ---------------------------------------------------------------- modify
\* The funding branch of modify_dca_order; "Ok" or the error.  `messages` of the handler
\* (the refunds it builds) is computed by ModifyMessages below.
ModifyFunding(order, new_initial_asset, funds, allowance) ==
  LET should_refund == order.initial_asset.amount > new_initial_asset.amount
      diff == IF should_refund THEN order.initial_asset.amount - new_initial_asset.amount
              ELSE new_initial_asset.amount - order.initial_asset.amount
      asset_difference == AssetOf(new_initial_asset.info, diff)
  IN IF order.initial_asset.info = new_initial_asset.info
     THEN IF ~should_refund
          THEN IF is_native_token(order.initial_asset.info)
               THEN IF assert_sent_native_token_balance(asset_difference, funds)
                    THEN "Ok" ELSE "NativeTokenMismatch"
               ELSE IF allowance # new_initial_asset.amount THEN "InvalidTokenDeposit" ELSE "Ok"
          ELSE "Ok"
     ELSE IF is_native_token(new_initial_asset.info)
          THEN IF assert_sent_native_token_balance(new_initial_asset, funds)
               THEN "Ok" ELSE "NativeTokenMismatch"
          ELSE IF allowance # new_initial_asset.amount THEN "InvalidTokenDeposit" ELSE "Ok"

\* The local vector `messages` modify_dca_order fills with refunds.
ModifyMessages(order, new_initial_asset, sender) ==
  LET should_refund == order.initial_asset.amount > new_initial_asset.amount
  IN IF order.initial_asset.info = new_initial_asset.info
     THEN IF should_refund /\ is_native_token(new_initial_asset.info)
          THEN <<asset_transfer(new_initial_asset.info,
                                order.initial_asset.amount - new_initial_asset.amount, sender)>>
          ELSE <<>>
     ELSE IF is_native_token(new_initial_asset.info)
          THEN <<asset_transfer(order.initial_asset.info, order.initial_asset.amount, sender)>>
          ELSE <<>>

\* The messages of the Response modify_dca_order returns: it is built with
\* Response::new().add_attributes(..) only, the local `messages` is not added to it.
ModifyResponseMessages(messages) == <<>>

\* A faulty variant of modify_dca_order, which saves the updated order before validating it.
modify_dca_order_saves_first(st, t, sender, funds, allowance, m) ==
  IF m.id \notin DOMAIN st.dca_requests THEN Err(st, "NotFound")
  ELSE
    LET order == st.dca_requests[m.id]
    IN
    IF order.user # sender THEN Err(st, "Unauthorized")
    ELSE IF ModifyFunding(order, m.new_initial_asset, funds, allowance) # "Ok"
         THEN Err(st, ModifyFunding(order, m.new_initial_asset, funds, allowance))
    ELSE
      LET order2 == [order EXCEPT !.initial_asset = m.new_initial_asset,
                                  !.target_asset = m.new_target_asset,
                                  !.interval = m.new_interval,
                                  !.dca_amount = m.new_dca_amount,
                                  !.max_hops = m.max_hops,
                                  !.max_spread = m.max_spread,
                                  !.start_purchase = m.start_purchase,
                                  !.last_purchase = IF m.should_reset_purchase_time THEN 0 ELSE @]
          saved == IndexedMapSave(st, m.id, order2)
      IN
      IF order2.start_purchase # None /\ order2.start_purchase < t THEN Err(saved, "StartTimeInPast")
      ELSE IF order2.initial_asset.info = order2.target_asset THEN Err(saved, "DuplicateAsset")
      ELSE IF order2.dca_amount > order2.initial_asset.amount THEN Err(saved, "DepositTooSmall")
      ELSE IF order2.dca_amount = 0 THEN Err(saved, "DivideByZero")
      ELSE IF ~checked_rem_is_zero(order2.initial_asset.amount, order2.dca_amount)
           THEN Err(saved, "IndivisibleDeposit")
      ELSE Ok(saved, ModifyResponseMessages(ModifyMessages(order, m.new_initial_asset, sender)), "")

\* handlers::modify_dca_order.  m: ModifyDcaOrderParameters.
modify_dca_order(st, t, sender, funds, allowance, m) ==
  IF m.id \notin DOMAIN st.dca_requests THEN Err(st, "NotFound")
  ELSE
    LET order == st.dca_requests[m.id]
    IN
    IF order.user # sender THEN Err(st, "Unauthorized")
    ELSE IF ModifyFunding(order, m.new_initial_asset, funds, allowance) # "Ok"
         THEN Err(st, ModifyFunding(order, m.new_initial_asset, funds, allowance))
    ELSE
      LET order2 == [order EXCEPT !.initial_asset = m.new_initial_asset,
                                  !.target_asset = m.new_target_asset,
                                  !.interval = m.new_interval,
                                  !.dca_amount = m.new_dca_amount,
                                  !.max_hops = m.max_hops,
                                  !.max_spread = m.max_spread,
                                  !.start_purchase = m.start_purchase,
                                  !.last_purchase = IF m.should_reset_purchase_time THEN 0 ELSE @]
      IN
      IF order2.start_purchase # None /\ order2.start_purchase < t THEN Err(st, "StartTimeInPast")
      ELSE IF order2.initial_asset.info = order2.target_asset THEN Err(st, "DuplicateAsset")
      ELSE IF order2.dca_amount > order2.initial_asset.amount THEN Err(st, "DepositTooSmall")
      ELSE IF order2.dca_amount = 0 THEN Err(st, "DivideByZero")
      ELSE IF ~checked_rem_is_zero(order2.initial_asset.amount, order2.dca_amount)
           THEN Err(st, "IndivisibleDeposit")
      ELSE Ok(IndexedMapSave(st, m.id, order2),
              ModifyResponseMessages(ModifyMessages(order, m.new_initial_asset, sender)), "")

\* ---------------------------------------------------------------- cancel
\* A faulty variant of cancel_dca_order, which refunds dca_amount instead of what is left.
cancel_dca_order_refunds_one_purchase(st, sender, id) ==
  IF id \notin DOMAIN st.dca_requests THEN Err(st, "NotFound")
  ELSE
    LET order == st.dca_requests[id]
        funds == IF is_native_token(order.initial_asset.info) /\ order.initial_asset.amount > 0
                 THEN <<BankSend(order.user, order.initial_asset.info.id, order.dca_amount)>>
                 ELSE <<>>
    IN IF order.user # sender THEN Err(st, "Unauthorized")
       ELSE Ok(IndexedMapRemove(st, id), funds, "")

\* A faulty variant of cancel_dca_order, which does not compare the sender with the owner.
cancel_dca_order_any_sender(st, sender, id) ==
  IF id \notin DOMAIN st.dca_requests THEN Err(st, "NotFound")
  ELSE
    LET order == st.dca_requests[id]
        funds == IF is_native_token(order.initial_asset.info) /\ order.initial_asset.amount > 0
                 THEN <<BankSend(order.user, order.initial_asset.info.id, order.initial_asset.amount)>>
                 ELSE <<>>
    IN Ok(IndexedMapRemove(st, id), funds, "")

\* handlers::cancel_dca_order.  DCA is the primary order map and DCA_OWNER its by-owner
\* index; removing the order from both is the removal from the indexed map.
cancel_dca_order(st, sender, id) ==
  IF id \notin DOMAIN st.dca_requests THEN Err(st, "NotFound")
  ELSE
    LET order == st.dca_requests[id]
        funds == IF is_native_token(order.initial_asset.info) /\ order.initial_asset.amount > 0
                 THEN <<BankSend(order.user, order.initial_asset.info.id, order.initial_asset.amount)>>
                 ELSE <<>>
    IN IF order.user # sender THEN Err(st, "Unauthorized")
       ELSE Ok(IndexedMapRemove(st, id), funds, "")

\* ---------------------------------------------------------------- tips
\* State::assert_whitelisted_tip_asset
assert_whitelisted_tip_asset(st, info) ==
  \E j \in 1..Len(st.whitelisted_tip_tokens) : st.whitelisted_tip_tokens[j].info = info

\* A faulty variant of add_bot_tip, which stores the tip as the balance of an entry that
\* exists instead of adding it.
add_bot_tip_overwrites(st, sender, asset) ==
  IF asset.amount = 0 THEN Err(st, "InvalidZeroAmount")
  ELSE IF ~assert_whitelisted_tip_asset(st, asset.info) THEN Err(st, "InvalidBotTipToken")
  ELSE
    LET tip_jars == IF sender \in DOMAIN st.tip_jars THEN st.tip_jars[sender] ELSE <<>>
        j == FindInfo(tip_jars, asset.info)
    IN IF j # 0
       THEN IF ~checked_add_ok(tip_jars[j].amount, asset.amount) THEN Err(st, "Overflow")
            ELSE Ok([st EXCEPT !.tip_jars =
                       MapPut(@, sender, [tip_jars EXCEPT ![j].amount = asset.amount])],
                    <<>>, "")
       ELSE Ok([st EXCEPT !.tip_jars = MapPut(@, sender, Append(tip_jars, asset))], <<>>, "")

\* A faulty variant of add_bot_tip, which appends every tip as an entry of its own.
add_bot_tip_appends(st, sender, asset) ==
  IF asset.amount = 0 THEN Err(st, "InvalidZeroAmount")
  ELSE IF ~assert_whitelisted_tip_asset(st, asset.info) THEN Err(st, "InvalidBotTipToken")
  ELSE
    LET tip_jars == IF sender \in DOMAIN st.tip_jars THEN st.tip_jars[sender] ELSE <<>>
    IN Ok([st EXCEPT !.tip_jars = MapPut(@, sender, Append(tip_jars, asset))], <<>>, "")

\* handlers::add_bot_tip: credit `asset` to the tip jars of `sender`
add_bot_tip(st, sender, asset) ==
  IF asset.amount = 0 THEN Err(st, "InvalidZeroAmount")
  ELSE IF ~assert_whitelisted_tip_asset(st, asset.info) THEN Err(st, "InvalidBotTipToken")
  ELSE
    LET tip_jars == IF sender \in DOMAIN st.tip_jars THEN st.tip_jars[sender] ELSE <<>>
        j == FindInfo(tip_jars, asset.info)
    IN IF j # 0
       THEN IF ~checked_add_ok(tip_jars[j].amount, asset.amount) THEN Err(st, "Overflow")
            ELSE Ok([st EXCEPT !.tip_jars =
                       MapPut(@, sender, [tip_jars EXCEPT ![j].amount = @ + asset.amount])],
                    <<>>, "")
       ELSE Ok([st EXCEPT !.tip_jars = MapPut(@, sender, Append(tip_jars, asset))], <<>>, "")

\* execute, ExecuteMsg::AddBotTip { asset }: the asset and the amount are taken from the
\* message; a native asset must match the attached coins, a token asset is credited as named.
execute_add_bot_tip(st, sender, funds, asset) ==
  IF ~assert_sent_native_token_balance(asset, funds) THEN Err(st, "NativeTokenMismatch")
  ELSE add_bot_tip(st, sender, asset)

\* handlers::receive, ReceiveMsg::AddBotTip {}: the cw20 contract (the caller) reports that
\* cw20_sender sent it `amount`; the credited asset is the calling contract's token.
receive(st, caller, cw20_sender, amount) ==
  add_bot_tip(st, cw20_sender, AssetOf(Token(caller), amount))

\* A faulty variant of the loop of withdraw, which keeps what it has done when a later
\* asset of the list cannot be withdrawn.
RECURSIVE WithdrawLoopKeepsProgress(_, _, _, _, _)
WithdrawLoopKeepsProgress(balance, tips, k, sender, msgs) ==
  IF k > Len(tips) THEN [err |-> "Ok", balance |-> balance, msgs |-> msgs]
  ELSE
    LET asset == tips[k]
        idx == FindInfo(balance, asset.info)
    IN IF idx = 0 THEN [err |-> "Ok", balance |-> balance, msgs |-> msgs]
       ELSE IF balance[idx].amount = asset.amount
            THEN WithdrawLoopKeepsProgress(SeqRemove(balance, idx), tips, k + 1, sender,
                                           Append(msgs, asset_transfer(asset.info, asset.amount, sender)))
       ELSE IF ~checked_sub_ok(balance[idx].amount, asset.amount)
            THEN [err |-> "Ok", balance |-> balance, msgs |-> msgs]
       ELSE WithdrawLoopKeepsProgress([balance EXCEPT ![idx].amount = @ - asset.amount], tips,
                                      k + 1, sender,
                                      Append(msgs, asset_transfer(asset.info, asset.amount, sender)))

\* handlers::withdraw: the loop over the requested assets, on the caller's tip balances
\* (USER_CONFIG.tips_balance is the caller's tip jar list).  Returns the error, the
\* balances left and the transfers built so far.
RECURSIVE WithdrawLoop(_, _, _, _, _)
WithdrawLoop(balance, tips, k, sender, msgs) ==
  IF k > Len(tips) THEN [err |-> "Ok", balance |-> balance, msgs |-> msgs]
  ELSE
    LET asset == tips[k]
        idx == FindInfo(balance, asset.info)
    IN IF idx = 0 THEN [err |-> "InsufficientTipWithdrawBalance", balance |-> balance, msgs |-> <<>>]
       ELSE IF balance[idx].amount = asset.amount
            THEN WithdrawLoop(SeqRemove(balance, idx), tips, k + 1, sender,
                              Append(msgs, asset_transfer(asset.info, asset.amount, sender)))
       ELSE IF ~checked_sub_ok(balance[idx].amount, asset.amount)
            THEN [err |-> "InsufficientTipWithdrawBalance", balance |-> balance, msgs |-> <<>>]
       ELSE WithdrawLoop([balance EXCEPT ![idx].amount = @ - asset.amount], tips, k + 1, sender,
                         Append(msgs, asset_transfer(asset.info, asset.amount, sender)))

\* handlers::withdraw
withdraw(st, sender, tips) ==
  LET balance == IF sender \in DOMAIN st.tip_jars THEN st.tip_jars[sender] ELSE <<>>
      r == WithdrawLoop(balance, tips, 1, sender, <<>>)
  IN IF r.err # "Ok" THEN Err(st, r.err)
     ELSE Ok([st EXCEPT !.tip_jars = MapPut(@, sender, r.balance)], r.msgs, "")

\* Withdraw without a list of assets: every balance of the caller is sent to the caller in
\* full, in stored order, and the caller's ledger is cleared.
withdraw_all(st, sender) ==
  LET balance == IF sender \in DOMAIN st.tip_jars THEN st.tip_jars[sender] ELSE <<>>
  IN Ok([st EXCEPT !.tip_jars = MapPut(@, sender, <<>>)],
        [j \in 1..Len(balance) |-> asset_transfer(balance[j].info, balance[j].amount, sender)], "")

\* ExecuteMsg::Withdraw { assets }: assets is Some(list) when `listed`, None otherwise.
execute_withdraw(st, sender, listed, assets) ==
  IF listed THEN withdraw(st, sender, assets) ELSE withdraw_all(st, sender)

\* ---------------------------------------------------------------- config
\* Option<T> arguments of update_config: [some |-> FALSE] or [some |-> TRUE, v |-> value]
Some(v) == [some |-> TRUE, v |-> v]

\* A faulty variant of update_config, which drops from every tip ledger the entries of
\* assets that a new list of tips no longer has.
update_config_prunes_jars(st, sender, factory_owner, max_hops, whitelisted_tokens, max_spread, tips) ==
  IF sender # factory_owner THEN Err(st, "Unauthorized")
  ELSE IF tips.some /\ \E k \in 1..Len(tips.v) : ~(tips.v[k].per_hop_fee > 0)
       THEN Err(st, "InvalidTipAmount")
  ELSE
    LET cfg1 == IF max_hops.some THEN [st.config EXCEPT !.max_hops = max_hops.v] ELSE st.config
        cfg2 == IF whitelisted_tokens.some
                THEN [cfg1 EXCEPT !.whitelisted_tokens = whitelisted_tokens.v] ELSE cfg1
        cfg3 == IF max_spread.some THEN [cfg2 EXCEPT !.max_spread = max_spread.v] ELSE cfg2
        kept(e) == \E k \in 1..Len(tips.v) : tips.v[k].info = e.info
    IN Ok([st EXCEPT !.config = cfg3,
                     !.whitelisted_tip_tokens = IF tips.some THEN tips.v ELSE @,
                     !.tip_jars = IF tips.some
                                  THEN [u \in DOMAIN @ |-> SelectSeq(@[u], kept)] ELSE @],
          <<>>, "")

\* A faulty variant of update_config, which returns before the owner check when no field
\* is supplied.
update_config_skips_empty(st, sender, factory_owner, max_hops, whitelisted_tokens, max_spread, tips) ==
  IF ~max_hops.some /\ ~whitelisted_tokens.some /\ ~max_spread.some /\ ~tips.some
  THEN Ok(st, <<>>, "")
  ELSE IF sender # factory_owner THEN Err(st, "Unauthorized")
  ELSE IF tips.some /\ \E k \in 1..Len(tips.v) : ~(tips.v[k].per_hop_fee > 0)
       THEN Err(st, "InvalidTipAmount")
  ELSE
    LET cfg1 == IF max_hops.some THEN [st.config EXCEPT !.max_hops = max_hops.v] ELSE st.config
        cfg2 == IF whitelisted_tokens.some
                THEN [cfg1 EXCEPT !.whitelisted_tokens = whitelisted_tokens.v] ELSE cfg1
        cfg3 == IF max_spread.some THEN [cfg2 EXCEPT !.max_spread = max_spread.v] ELSE cfg2
    IN Ok([st EXCEPT !.config = cfg3,
                     !.whitelisted_tip_tokens = IF tips.some THEN tips.v ELSE @], <<>>, "")

\* A faulty variant of update_config, which stores the whole new configuration, an omitted
\* list of whitelisted tokens as the empty list.
update_config_clears_omitted(st, sender, factory_owner, max_hops, whitelisted_tokens, max_spread, tips) ==
  IF sender # factory_owner THEN Err(st, "Unauthorized")
  ELSE IF tips.some /\ \E k \in 1..Len(tips.v) : ~(tips.v[k].per_hop_fee > 0)
       THEN Err(st, "InvalidTipAmount")
  ELSE
    LET cfg1 == IF max_hops.some THEN [st.config EXCEPT !.max_hops = max_hops.v] ELSE st.config
        cfg2 == [cfg1 EXCEPT !.whitelisted_tokens =
                               IF whitelisted_tokens.some THEN whitelisted_tokens.v ELSE <<>>]
        cfg3 == IF max_spread.some THEN [cfg2 EXCEPT !.max_spread = max_spread.v] ELSE cfg2
    IN Ok([st EXCEPT !.config = cfg3,
                     !.whitelisted_tip_tokens = IF tips.some THEN tips.v ELSE @], <<>>, "")

\* handlers::update_config.  factory_owner: the owner the factory's config query reports.
\* TIPS is the tip whitelist (asset and per-hop fee).
update_config(st, sender, factory_owner, max_hops, whitelisted_tokens, max_spread, tips) ==
  IF sender # factory_owner THEN Err(st, "Unauthorized")
  ELSE IF tips.some /\ \E j \in 1..Len(tips.v) : ~(tips.v[j].per_hop_fee > 0)
       THEN Err(st, "InvalidTipAmount")
  ELSE
    LET cfg1 == IF max_hops.some THEN [st.config EXCEPT !.max_hops = max_hops.v] ELSE st.config
        cfg2 == IF whitelisted_tokens.some
                THEN [cfg1 EXCEPT !.whitelisted_tokens = whitelisted_tokens.v] ELSE cfg1
        cfg3 == IF max_spread.some THEN [cfg2 EXCEPT !.max_spread = max_spread.v] ELSE cfg2
    IN Ok([st EXCEPT !.config = cfg3,
                     !.whitelisted_tip_tokens = IF tips.some THEN tips.v ELSE @], <<>>, "")

\* ---------------------------------------------------------------- calls
\* What the model records of a failed call: the operation, the caller, the id it named and
\* the error.
\* A specification that does not record failures (record = FALSE) keeps the previous
\* response: a failed call then changes nothing at all.
Failed(record, op, sender, id, err) ==
  IF record THEN Result(op, sender, id, NoAsset, 0, err, <<>>, "") ELSE res

\* history bookkeeping shared by the actions
Baseline(deposit, dca_amount, modified) ==
  [deposit |-> deposit, n |-> IF dca_amount > 0 THEN deposit \div dca_amount ELSE 0,
   count |-> 0, spent |-> 0, modified |-> modified]
NoteCredit(owner, asset) == [tip_net EXCEPT ![owner][asset.info] = @ + asset.amount]
RECURSIVE NoteDebits(_, _, _)
NoteDebits(net, owner, msgs) ==
  IF msgs = <<>> THEN net
  ELSE NoteDebits([net EXCEPT ![owner][Head(msgs).info] = @ - Head(msgs).amount], owner, Tail(msgs))

\* Block time advances.
Tick ==
  /\ now < MaxTime
  /\ now' = now + 1
  /\ res' = Result("tick", "", 0, NoAsset, 0, "Ok", <<>>, "")
  /\ UNCHANGED <<state, assigned, tip_net, purchases>>

\* ExecuteMsg::CreateDcaOrder.  `deposit` is the coins attached (native initial asset) or the
\* allowance the token reports (token initial asset).
CreateDcaOrder(P) ==
  /\ state.dca_id < P.max_orders
  /\ \E sender \in P.creators, info \in P.infos, amount \in P.amounts, target \in P.infos,
        interval \in P.intervals, dca_amount \in P.amounts, start_purchase \in P.starts,
        max_hops \in P.max_hops, max_spread \in P.spreads, deposit \in P.amounts :
       LET m == [initial_asset |-> AssetOf(info, amount), target_asset |-> target,
                 interval |-> interval, dca_amount |-> dca_amount,
                 start_purchase |-> start_purchase, max_hops |-> max_hops,
                 max_spread |-> max_spread]
           out == create_dca_order(state, now, sender, deposit, deposit, m)
       IN /\ state' = out.st
          /\ IF out.err = "Ok"
             THEN /\ res' = Result("create_dca_order", sender, IdAttr(out), NoAsset, 0, "Ok",
                                   out.msgs, out.event)
                  /\ assigned' = Append(assigned, IdAttr(out))
                  /\ purchases' = MapPut(purchases, IdAttr(out),
                                         Baseline(m.initial_asset.amount, m.dca_amount, FALSE))
             ELSE /\ res' = Failed(P.record, "create_dca_order", sender, 0, out.err)
                  /\ UNCHANGED <<assigned, purchases>>
          /\ UNCHANGED <<now, tip_net>>

\* The ModifyDcaOrderParameters a caller can send for order `id`.
AllModifyParameters(P, id) ==
  {[id |-> id, new_initial_asset |-> AssetOf(info, amount), new_target_asset |-> target,
    new_interval |-> interval, new_dca_amount |-> dca_amount,
    should_reset_purchase_time |-> reset, start_purchase |-> start_purchase,
    max_hops |-> max_hops, max_spread |-> max_spread] :
      info \in P.infos, amount \in P.new_amounts, target \in P.infos,
      interval \in P.new_intervals, dca_amount \in P.new_amounts, reset \in P.resets,
      start_purchase \in P.starts, max_hops \in P.max_hops, max_spread \in P.spreads}

\* The parameters the model draws for a call by `sender`: a call that fails before the
\* handler reads the parameters (no such order, not the owner) is drawn once.
ModifyParameters(P, sender, id) ==
  IF id \in DOMAIN state.dca_requests /\ state.dca_requests[id].user = sender
  THEN AllModifyParameters(P, id)
  ELSE {CHOOSE m \in AllModifyParameters(P, id) : TRUE}

\* ExecuteMsg::ModifyDcaOrder
ModifyDcaOrder(P) ==
  \E sender \in Users, id \in 1..P.max_orders :
    \E m \in ModifyParameters(P, sender, id), deposit \in P.amounts :
      LET out == modify_dca_order(state, now, sender, deposit, deposit, m)
      IN /\ state' = out.st
         /\ IF out.err = "Ok"
            THEN /\ res' = Result("modify_dca_order", sender, id, NoAsset, 0, "Ok",
                                  out.msgs, out.event)
                 /\ purchases' = [purchases EXCEPT
                                    ![id] = Baseline(m.new_initial_asset.amount,
                                                     m.new_dca_amount, TRUE)]
            ELSE /\ res' = Failed(P.record, "modify_dca_order", sender, id, out.err)
                 /\ UNCHANGED purchases
         /\ UNCHANGED <<now, assigned, tip_net>>

\* ExecuteMsg::CancelDcaOrder
CancelDcaOrder(P) ==
  \E sender \in Users, id \in 1..P.max_orders :
    LET out == cancel_dca_order(state, sender, id)
    IN /\ state' = out.st
       /\ IF out.err = "Ok"
          THEN res' = Result("cancel_dca_order", sender, id, NoAsset, 0, "Ok",
                             out.msgs, out.event)
          ELSE res' = Failed(P.record, "cancel_dca_order", sender, id, out.err)
       /\ UNCHANGED <<now, assigned, tip_net, purchases>>

\* The amount of the initial asset a purchase hands to the router: the coins sent with the
\* swap, or the amount of the transfer-from that precedes it.
SpentBy(msgs) ==
  IF msgs[1].kind = "cw20_transfer_from" THEN msgs[1].amount
  ELSE IF msgs[1].kind = "execute_swap_operations" THEN msgs[1].amount
  ELSE 0

\* ExecuteMsg::PerformDcaPurchase, sent by any account
PerformDcaPurchase(P) ==
  \E sender \in P.bots, id \in 1..P.max_orders, hops \in P.routes, build \in P.builds :
    LET out == perform_dca_purchase(state, now, sender, id, hops, build)
    IN /\ state' = out.st
       /\ IF out.err = "Ok"
          THEN /\ res' = Result("perform_dca_purchase", sender, id, NoAsset, 0, "Ok",
                                out.msgs, out.event)
               /\ tip_net' = NoteDebits(tip_net, state.dca_requests[id].user,
                                        <<out.msgs[Len(out.msgs)]>>)
               /\ purchases' = [purchases EXCEPT ![id].count = @ + 1,
                                                   ![id].spent = @ + SpentBy(out.msgs)]
          ELSE /\ res' = Failed(P.record, "perform_dca_purchase", sender, id, out.err)
               /\ UNCHANGED <<tip_net, purchases>>
       /\ UNCHANGED <<now, assigned>>

\* ExecuteMsg::AddBotTip { asset }
AddBotTip(P) ==
  \E sender \in P.tippers, info \in P.tip_infos, amount \in P.tip_amounts, funds \in P.tip_amounts :
    LET asset == AssetOf(info, amount)
        out == execute_add_bot_tip(state, sender, funds, asset)
    IN /\ state' = out.st
       /\ IF out.err = "Ok"
          THEN /\ res' = Result("add_bot_tip", sender, 0, asset, funds, "Ok", out.msgs, out.event)
               /\ tip_net' = NoteCredit(sender, asset)
          ELSE /\ res' = Failed(P.record, "add_bot_tip", sender, 0, out.err)
               /\ UNCHANGED tip_net
       /\ UNCHANGED <<now, assigned, purchases>>

\* ExecuteMsg::Receive(Cw20ReceiveMsg) with ReceiveMsg::AddBotTip {}: sent by a cw20 contract
\* after a transfer to the DCA contract, or by any account that names itself as the token.
Receive(P) ==
  \E caller \in P.hook_callers, cw20_sender \in P.hook_senders, amount \in P.tip_amounts :
    LET out == receive(state, caller, cw20_sender, amount)
    IN /\ state' = out.st
       /\ IF out.err = "Ok"
          THEN /\ res' = Result("receive", caller, 0, AssetOf(Token(caller), amount), 0, "Ok",
                                out.msgs, out.event)
               /\ tip_net' = NoteCredit(cw20_sender, AssetOf(Token(caller), amount))
          ELSE /\ res' = Failed(P.record, "receive", caller, 0, out.err)
               /\ UNCHANGED tip_net
       /\ UNCHANGED <<now, assigned, purchases>>

\* ExecuteMsg::Withdraw with a list of assets
Withdraw(P) ==
  \E sender \in P.withdrawers, listed \in P.withdraw_listed, tips \in P.withdrawals :
    LET out == execute_withdraw(state, sender, listed, tips)
    IN /\ state' = out.st
       /\ IF out.err = "Ok"
          THEN /\ res' = Result("withdraw", sender, 0, NoAsset, 0, "Ok", out.msgs, out.event)
               /\ tip_net' = NoteDebits(tip_net, sender, out.msgs)
          ELSE /\ res' = Failed(P.record, "withdraw", sender, 0, out.err)
               /\ UNCHANGED tip_net
       /\ UNCHANGED <<now, assigned, purchases>>

\* ExecuteMsg::UpdateConfig: only the tip whitelist and max_hops are varied
UpdateConfig(P) ==
  \E sender \in P.admins, change_hops \in BOOLEAN, change_tips \in BOOLEAN,
     max_hops \in P.cfg_max_hops, tips \in P.cfg_tips :
    LET out == update_config(state, sender, FactoryOwner,
                             IF change_hops THEN Some(max_hops) ELSE [some |-> FALSE],
                             [some |-> FALSE], [some |-> FALSE],
                             IF change_tips THEN Some(tips) ELSE [some |-> FALSE])
    IN /\ state' = out.st
       /\ res' = IF out.err = "Ok"
                 THEN Result("update_config", sender, 0, NoAsset, 0, "Ok", out.msgs, out.event)
                 ELSE Failed(P.record, "update_config", sender, 0, out.err)
       /\ UNCHANGED <<now, assigned, tip_net, purchases>>

\* ---------------------------------------------------------------- specifications
\* The inputs a specification draws the calls' arguments from.
AssetLists(infos, amounts, maxlen) ==
  UNION {[1..n -> {AssetOf(i, a) : i \in infos, a \in amounts}] : n \in 0..maxlen}

Next(P) ==
  \/ Tick
  \/ CreateDcaOrder(P)
  \/ ModifyDcaOrder(P)
  \/ CancelDcaOrder(P)
  \/ PerformDcaPurchase(P)
  \/ AddBotTip(P)
  \/ Receive(P)
  \/ Withdraw(P)
  \/ UpdateConfig(P)

\* The life of one order: one owner, any caller, both kinds of asset, an interval that
\* fits the clock and one that does not fit the timestamp's width; failed calls are
\* recorded.  Tips are the owner's, in the native tip asset.
Inputs ==
  [record |-> TRUE, max_orders |-> MaxOrders,
   creators |-> {"alice"}, infos |-> AssetInfos, amounts |-> 0..MaxAmount,
   intervals |-> {1, U64Max}, new_amounts |-> 1..MaxAmount, new_intervals |-> {1},
   starts |-> {None}, max_hops |-> {None}, spreads |-> {None}, resets |-> BOOLEAN,
   bots |-> {"bob"}, routes |-> Routes, builds |-> {"wrap", "panic"},
   tippers |-> {"alice"}, tip_infos |-> {ULUNA}, tip_amounts |-> 0..MaxAmount,
   hook_callers |-> {"alice"}, hook_senders |-> {"alice"},
   withdrawers |-> {"alice"}, withdrawals |-> AssetLists({ULUNA}, {1}, 1),
   withdraw_listed |-> {TRUE},
   admins |-> {"alice"}, cfg_max_hops |-> {1},
   cfg_tips |-> {<<TipAssetInfo(TOK, 2)>>}]

NextOrder == Next(Inputs)
Spec == Init /\ [][NextOrder]_vars

\* routes of one hop between the two assets
DirectRoutes == {<<AstroSwap(ULUNA, TOK)>>, <<AstroSwap(TOK, ULUNA)>>}

\* The amounts of an order: deposits and purchase sizes up to MaxDeposit, in create and in
\* modify, zero included; failed calls leave no trace.
InputsAmounts ==
  [Inputs EXCEPT !.record = FALSE, !.amounts = 0..MaxDeposit, !.new_amounts = 0..MaxDeposit,
                 !.intervals = {1}, !.routes = DirectRoutes, !.builds = {"wrap"},
                 !.tip_amounts = {MaxAmount}, !.resets = {FALSE}]

NextAmounts == Next(InputsAmounts)
SpecAmounts == Init /\ [][NextAmounts]_vars

\* The ids: up to MaxIds orders, each of one purchase.
InputsIds ==
  [Inputs EXCEPT !.record = FALSE, !.max_orders = MaxIds,
                 !.infos = {ULUNA, TOK}, !.amounts = {1}, !.new_amounts = {1},
                 !.intervals = {1}, !.routes = DirectRoutes, !.builds = {"wrap"},
                 !.tip_amounts = {MaxAmount}, !.resets = {FALSE}]

NextIds == Next(InputsIds)
SpecIds == Init /\ [][NextIds]_vars

\* The tips: two owners of orders of one purchase; alice credits her jars by message, in
\* both tip assets, bob through the cw20 hook (called by the token contract, or by an
\* account naming itself as the token); both withdraw.
InputsTips ==
  [Inputs EXCEPT !.record = FALSE, !.creators = Users, !.infos = AssetInfos,
                 !.amounts = {1}, !.new_amounts = {1},
                 !.intervals = {1}, !.routes = DirectRoutes, !.builds = {"wrap"},
                 !.resets = {FALSE},
                 !.tippers = {"alice"}, !.tip_infos = AssetInfos, !.tip_amounts = {0, MaxAmount},
                 !.hook_callers = {"tok", "alice"}, !.hook_senders = {"bob"},
                 !.withdrawers = Users,
                 !.withdrawals = AssetLists(AssetInfos, {MaxAmount}, 1),
                 !.withdraw_listed = BOOLEAN]

NextTips == Next(InputsTips)
SpecTips == Init /\ [][NextTips]_vars

\* The gates of a purchase: orders with a start time, at the first block or at the last,
\* with and without a hop limit of their own; routes of every shape; the owner and a
\* stranger as callers; failed calls are recorded.
InputsGates ==
  [Inputs EXCEPT !.amounts = 1..MaxAmount, !.new_amounts = {1},
                 !.intervals = {1}, !.builds = {"wrap"}, !.resets = {FALSE},
                 !.starts = {1, MaxTime}, !.max_hops = {None, 1},
                 !.bots = Users, !.tip_amounts = {MaxAmount}]

NextGates == Next(InputsGates)
SpecGates == Init /\ [][NextGates]_vars

\* routes of AstroSwap hops, one hop at least
AstroRoutes == {r \in Routes : r # <<>> /\ \A j \in 1..Len(r) : r[j].op = "astro"}

\* The messages of a purchase: orders in either asset, with and without a max_spread of
\* their own, bought by the owner or by a stranger over routes of one and two hops, tips
\* in the native asset (by message) and in the token (through its hook); failed calls
\* leave no trace.
InputsMessages ==
  [Inputs EXCEPT !.record = FALSE, !.amounts = 1..MaxAmount, !.new_amounts = {1},
                 !.intervals = {1}, !.builds = {"wrap"}, !.resets = {FALSE},
                 !.spreads = {None, 2}, !.bots = Users,
                 !.routes = AstroRoutes,
                 !.tip_amounts = {MaxAmount}, !.hook_callers = {"tok"}]

NextMessages == Next(InputsMessages)
SpecMessages == Init /\ [][NextMessages]_vars

\* The tip whitelists the factory owner sets: the token alone, or both assets with the
\* largest fee there is on the native one.
TipWhitelists ==
  {<<TipAssetInfo(TOK, 2)>>, <<TipAssetInfo(ULUNA, U128Max), TipAssetInfo(TOK, 1)>>}

\* The tip jars of one owner: credits in the native asset (by message) and in the token
\* (through its hook) in any order and amount, a tip whitelist that the factory owner
\* changes, orders of one purchase bought over one or two hops; failed calls leave no
\* trace.
InputsJars ==
  [Inputs EXCEPT !.record = FALSE, !.amounts = {1}, !.new_amounts = {1},
                 !.intervals = {1}, !.builds = {"wrap"}, !.resets = {FALSE},
                 !.routes = AstroRoutes, !.tip_amounts = 1..MaxAmount,
                 !.hook_callers = {"tok"},
                 !.admins = {FactoryOwner}, !.cfg_max_hops = {2},
                 !.cfg_tips = TipWhitelists]

NextJars == Next(InputsJars)
SpecJars == Init /\ [][NextJars]_vars

\* The limit on hops: orders with and without a max_hops of their own, of one and of two
\* hops, while the owner of the factory lowers the contract's max_hops to one; routes of up
\* to two hops; failed calls are recorded.
InputsHops ==
  [Inputs EXCEPT !.amounts = 1..MaxAmount, !.new_amounts = {1},
                 !.intervals = {1}, !.builds = {"wrap"}, !.resets = {FALSE},
                 !.max_hops = {None, 1, MaxRouteLen},
                 !.tip_amounts = {MaxAmount},
                 !.admins = {FactoryOwner}, !.cfg_max_hops = {1}]
NextHops == Next(InputsHops)
SpecHops == Init /\ [][NextHops]_vars

\* The checks of create: deposits and purchase sizes up to MaxDeposit, zero included, a
\* start_purchase that is absent or at the first block (in the past from the second on);
\* failed calls are recorded.
InputsCreate ==
  [Inputs EXCEPT !.amounts = 0..MaxDeposit, !.new_amounts = {1},
                 !.intervals = {1}, !.builds = {"wrap"}, !.resets = {FALSE},
                 !.starts = {None, 1}, !.routes = DirectRoutes,
                 !.tip_amounts = {MaxAmount},
                 !.withdrawals = AssetLists({ULUNA}, {MaxAmount}, 1)]

NextCreate == Next(InputsCreate)
SpecCreate == Init /\ [][NextCreate]_vars

\* ---------------------------------------------------------------- claims
\* The routes that pass the route checks of a purchase under the configuration cfg with
\* the hop limit max_hops: not empty, within the limit, no native swap, every hop but the
\* last bought into a whitelisted asset.
PassesRouteChecks(cfg, max_hops, hops) ==
  /\ Len(hops) > 0
  /\ Len(hops) <= max_hops
  /\ \A j \in 1..Len(hops) : hops[j].op # "native"
  /\ \A j \in 1..(Len(hops) - 1) : is_whitelisted_asset(cfg, hops[j].ask)

HopLimit(st, id) ==
  IF st.dca_requests[id].max_hops # None THEN st.dca_requests[id].max_hops
  ELSE st.config.max_hops

\* C2: for a stored order whose last_purchase = T was set by a purchase and not reset, with
\* interval I, every purchase attempted at a block time t < T + I with a route that passes
\* the route checks fails with PurchaseTooEarly and commits nothing (the order's amount, its
\* last_purchase and the owner's tips stay as they are).
C2_TooEarlyIsRejected ==
  \A id \in DOMAIN state.dca_requests :
    LET d == state.dca_requests[id]
    IN (d.last_purchase > 0 /\ now < d.last_purchase + d.interval) =>
         \A hops \in Routes, build \in {"wrap", "panic"} :
           PassesRouteChecks(state.config, HopLimit(state, id), hops) =>
             LET out == perform_dca_purchase(state, now, "bob", id, hops, build)
             IN out.err = "PurchaseTooEarly" /\ out.st = state

\* C3: a purchase of an order succeeds only when the order's previous purchase (not reset
\* since) lies at least interval back: no two purchases of one order succeed within a
\* window shorter than its interval.
C3_OnePurchasePerInterval ==
  [][\A id \in DOMAIN state.dca_requests :
       (/\ state.dca_requests[id].last_purchase > 0
        /\ state' # state
        /\ res'.op = "perform_dca_purchase" /\ res'.err = "Ok" /\ res'.id = id)
       => now >= state.dca_requests[id].last_purchase + state.dca_requests[id].interval]_vars

\* what is left of the deposit of order id after the amounts its purchases handed over
Due(id) == purchases[id].deposit - purchases[id].spent

C5_IdsStrictlyIncrease ==
  /\ \A i, j \in 1..Len(assigned) : i < j => assigned[i] < assigned[j]
  /\ \A id \in DOMAIN state.dca_requests :
       /\ state.dca_requests[id].id = id
       /\ \E i \in 1..Len(assigned) : assigned[i] = id
  /\ \A i \in 1..Len(assigned) : assigned[i] <= state.dca_id

\* C5 witness: a create has just handed out a second id while the order of the first,
\* until then the highest, is gone.
C5_Witness ==
  /\ res.op = "create_dca_order" /\ res.err = "Ok"
  /\ Len(assigned) = 2
  /\ res.id = assigned[2]
  /\ assigned[1] \notin DOMAIN state.dca_requests

\* the accounts that can send a message
Callers == Users \cup {FactoryOwner, "bot"}

\* C6: a ModifyDcaOrder or a CancelDcaOrder on a stored order sent by anyone but its owner
\* fails with Unauthorized, commits nothing (orders, tip jars and the id counter stay as
\* they are) and sends no message.
C6_OnlyTheOwnerModifiesOrCancels ==
  \A id \in DOMAIN state.dca_requests, sender \in Callers :
    sender # state.dca_requests[id].user =>
      /\ cancel_dca_order(state, sender, id) = Err(state, "Unauthorized")
      /\ \A m \in AllModifyParameters(Inputs, id), deposit \in Inputs.amounts :
           modify_dca_order(state, now, sender, deposit, deposit, m) = Err(state, "Unauthorized")

\* C6 witness: bob's cancellation of alice's stored order has just failed with Unauthorized.
C6_Witness ==
  /\ res.op = "cancel_dca_order" /\ res.err = "Unauthorized"
  /\ res.id \in DOMAIN state.dca_requests
  /\ res.sender # state.dca_requests[res.id].user

\* the stored tip balance of owner u in asset a: the amounts of the jars of that asset
RECURSIVE JarSum(_, _)
JarSum(jars, a) ==
  IF jars = <<>> THEN 0
  ELSE (IF Head(jars).info = a THEN Head(jars).amount ELSE 0) + JarSum(Tail(jars), a)
JarBalance(st, u, a) == IF u \in DOMAIN st.tip_jars THEN JarSum(st.tip_jars[u], a) ELSE 0

\* C7: for every owner and every asset, the stored tip balance equals the amounts credited
\* to the owner (by AddBotTip and by the cw20 hook) less the amounts paid out of it (the tip
\* payments of the purchases of the owner's orders and the owner's withdrawals).
C7_TipLedgerConservation ==
  \A u \in Users, a \in AssetInfos : JarBalance(state, u, a) = tip_net[u][a]

\* C7 witness: a purchase has just been paid out of the owner's jar, which still holds a
\* balance, and the other owner holds a balance credited through the hook.
C7_Witness ==
  /\ res.op = "perform_dca_purchase" /\ res.err = "Ok"
  /\ \E a \in AssetInfos : JarBalance(state, "alice", a) > 0
  /\ JarBalance(state, "bob", TOK) > 0
  /\ res.msgs[Len(res.msgs)].to = res.sender

\* C8: every amount credited to a tip jar is backed by funds received in the same call: a
\* native credit equals the coins attached to the AddBotTip call, and a credit in a
\* contract-issued asset is made only by the receive hook, for the token of the calling
\* contract; naming an asset and an amount in a message credits nothing.
C8_TipCreditsAreFunded ==
  (res.op \in {"add_bot_tip", "receive"} /\ res.err = "Ok") =>
    IF is_native_token(res.asset.info)
    THEN res.op = "add_bot_tip" /\ res.funds = res.asset.amount
    ELSE res.op = "receive" /\ res.asset.info = Token(res.sender)

\* a purchase of the stored order id at the present time is due: the order has started,
\* and its previous purchase, if any since the last reset, lies at least interval back
PurchaseIsDue(id) ==
  LET d == state.dca_requests[id]
  IN /\ (d.start_purchase = None \/ d.start_purchase <= now)
     /\ (d.last_purchase = 0 \/ d.last_purchase + d.interval <= now)

C10_CancelRefundsTheRemainder ==
  \A id \in DOMAIN state.dca_requests :
    LET d == state.dca_requests[id]
        out == cancel_dca_order(state, d.user, id)
    IN /\ out.err = "Ok"
       /\ out.st.dca_requests = MapDel(state.dca_requests, id)
       /\ \A k \in out.st.idx_user : k[2] # id
       /\ out.st.tip_jars = state.tip_jars
       /\ out.st.dca_id = state.dca_id
       /\ out.st.config = state.config
       /\ out.st.whitelisted_tip_tokens = state.whitelisted_tip_tokens
       /\ Due(id) > 0
       /\ out.msgs = IF is_native_token(d.initial_asset.info)
                     THEN <<BankSend(d.user, d.initial_asset.info.id, Due(id))>>
                     ELSE <<>>
       /\ cancel_dca_order(out.st, d.user, id) = Err(out.st, "NotFound")

\* C10 witness: the owner has just cancelled a native order of two purchases after its first
\* purchase, and the one message sent returns the one unit left.
C10_Witness ==
  /\ res.op = "cancel_dca_order" /\ res.err = "Ok"
  /\ res.id \notin DOMAIN state.dca_requests
  /\ purchases[res.id].deposit = 2 /\ purchases[res.id].count = 1
  /\ Len(res.msgs) = 1
  /\ res.msgs[1] = BankSend(res.sender, "uluna", 1)

\* The per_hop_fee of asset a in the tip whitelist (None when a is not whitelisted).
TipFee(st, a) ==
  LET w == FindInfo(st.whitelisted_tip_tokens, a)
  IN IF w = 0 THEN None ELSE st.whitelisted_tip_tokens[w].per_hop_fee

\* A route of one hop that sells the order's initial asset for its target.
DirectRoute(order) == <<AstroSwap(order.initial_asset.info, order.target_asset)>>

C12_ChecksInStatedOrder ==
  \A id \in 1..MaxOrders, sender \in Users, hops \in Routes :
    LET out == perform_dca_purchase(state, now, sender, id, hops, "wrap")
        order == state.dca_requests[id]
        n == Len(hops)
        stated ==
          IF id \notin DOMAIN state.dca_requests THEN "NonExistentDca"
          ELSE IF n = 0 THEN "EmptyHopRoute"
          ELSE IF n > HopLimit(state, id) THEN "MaxHopsAssertion"
          ELSE IF \E j \in 1..n : hops[j].op = "native" THEN "NativeSwapNotSupported"
          ELSE IF hops[1].offer # order.initial_asset.info THEN "StartAssetAssertion"
          ELSE IF hops[n].ask # order.target_asset THEN "TargetAssetAssertion"
          ELSE IF \E j \in 1..(n - 1) : ~is_whitelisted_asset(state.config, hops[j].ask)
               THEN "InvalidHopRoute"
          ELSE IF ~PurchaseIsDue(id) THEN "PurchaseTooEarly"
          ELSE "passed"
    IN /\ stated # "passed" => (out.err = stated /\ out.st = state)
       /\ stated = "passed" =>
            out.err \in {"Ok", "InsufficientBalance", "InsufficientTipBalance", "NoTipBalance"}

\* C13: a purchase whose first hop sells an asset other than the order's initial asset
\* never succeeds: a route that passes the checks made before (not empty, within the hop
\* limit, no native swap) fails with StartAssetAssertion, any other fails with an earlier
\* error, and neither the order nor the tip jars change.
C13_WrongStartIsRejected ==
  \A id \in DOMAIN state.dca_requests, sender \in Users, hops \in Routes :
    LET out == perform_dca_purchase(state, now, sender, id, hops, "wrap")
        order == state.dca_requests[id]
    IN (Len(hops) > 0 /\ hops[1].offer # order.initial_asset.info) =>
         /\ out.err # "Ok"
         /\ out.st = state
         /\ (/\ Len(hops) <= HopLimit(state, id)
             /\ \A j \in 1..Len(hops) : hops[j].op # "native")
            => out.err = "StartAssetAssertion"

C15_MiddleAsksAreWhitelisted ==
  \A id \in DOMAIN state.dca_requests, sender \in Users, hops \in Routes :
    LET out == perform_dca_purchase(state, now, sender, id, hops, "wrap")
        wl == state.config.whitelisted_tokens
        n == Len(hops)
        listed(a) == \E k \in 1..Len(wl) : wl[k] = a
        offending == {j \in 1..(n - 1) : ~listed(hops[j].ask)}
    IN (/\ n > 0 /\ n <= HopLimit(state, id)
        /\ \A j \in 1..n : hops[j].op # "native")
       => IF offending # {}
          THEN /\ out.err = "InvalidHopRoute"
               /\ out.st = state /\ out.msgs = <<>>
               /\ \E j \in offending : /\ out.token = hops[j].ask.id
                                       /\ \A k \in offending : j <= k
          ELSE out.err # "InvalidHopRoute"

\* A purchase has failed with InvalidHopRoute, in a state in which a purchase of the same
\* order succeeds with a route whose first offer or last ask is not whitelisted.
C15_Witness ==
  /\ res.op = "perform_dca_purchase" /\ res.err = "InvalidHopRoute"
  /\ res.id \in DOMAIN state.dca_requests
  /\ \E hops \in Routes \ {<<>>} :
       /\ \/ ~is_whitelisted_asset(state.config, hops[Len(hops)].ask)
          \/ ~is_whitelisted_asset(state.config, hops[1].offer)
       /\ perform_dca_purchase(state, now, res.sender, res.id, hops, "wrap").err = "Ok"

\* C16: no purchase succeeds at a block time earlier than the start_purchase the order has
\* stored when it is called: it changes nothing, and with a route that passes the route
\* checks it fails with PurchaseTooEarly.  CreateDcaOrder with a start_purchase earlier than
\* the block time fails with StartTimeInPast and stores nothing; with a start_purchase
\* equal to the block time (or later) it does not, and an otherwise valid request with
\* start_purchase equal to the block time is accepted.
C16_StartTimeIsRespected ==
  /\ \A id \in DOMAIN state.dca_requests, sender \in Users, hops \in Routes, build \in {"wrap", "panic"} :
       LET out == perform_dca_purchase(state, now, sender, id, hops, build)
           order == state.dca_requests[id]
       IN (order.start_purchase # None /\ now < order.start_purchase) =>
            /\ out.err # "Ok"
            /\ out.st = state
            /\ PassesRouteChecks(state.config, HopLimit(state, id), hops)
               => out.err = "PurchaseTooEarly"
  /\ \A sender \in Users, info \in AssetInfos, target \in AssetInfos, amount \in 0..MaxAmount,
        dca_amount \in 0..MaxAmount, start_purchase \in 0..MaxTime, deposit \in 0..MaxAmount :
       LET m == [initial_asset |-> AssetOf(info, amount), target_asset |-> target,
                 interval |-> 1, dca_amount |-> dca_amount, start_purchase |-> start_purchase,
                 max_hops |-> None, max_spread |-> None]
           out == create_dca_order(state, now, sender, deposit, deposit, m)
       IN /\ start_purchase < now => out = Err(state, "StartTimeInPast")
          /\ start_purchase >= now => out.err # "StartTimeInPast"
          /\ (/\ start_purchase = now /\ info # target /\ amount = deposit
              /\ dca_amount > 0 /\ amount % dca_amount = 0 /\ amount > 0)
             => /\ out.err = "Ok"
                /\ out.st.dca_requests[out.st.dca_id].start_purchase = now

\* A purchase of an order that was created with a start_purchase after the block of its
\* creation, and never modified, has failed with PurchaseTooEarly before that time.
C16_Witness ==
  /\ res.op = "perform_dca_purchase" /\ res.err = "PurchaseTooEarly"
  /\ res.id \in DOMAIN state.dca_requests
  /\ ~purchases[res.id].modified
  /\ state.dca_requests[res.id].last_purchase = 0
  /\ state.dca_requests[res.id].start_purchase = MaxTime
  /\ now < MaxTime

\* C17 as stated, its last sentence: in a successful purchase the swap's recipient is never
\* the caller and the tip's recipient is never the owner of the order.
C17_ProceedsAndTipNeverMeet ==
  \A id \in DOMAIN state.dca_requests, sender \in Users, hops \in Routes :
    LET out == perform_dca_purchase(state, now, sender, id, hops, "wrap")
        n == Len(out.msgs)
    IN out.err = "Ok" =>
         /\ out.msgs[n - 1].to # sender
         /\ out.msgs[n].to # state.dca_requests[id].user

\* C17: a successful purchase emits, in this order: only when the initial asset is a
\* token, a transfer-from of dca_amount from the owner to the router; the router swap with
\* the given hops, the order's max_spread or else the configured one, dca_amount of the
\* native initial asset as funds (none for a token) and the owner as recipient; last, a
\* transfer to the caller of exactly the tip debited from the owner's jar, in its asset.
\* When the caller is not the owner, the proceeds do not go to the caller and the tip
\* does not go to the owner.
C17_MessagesInOrder ==
  \A id \in DOMAIN state.dca_requests, sender \in Users, hops \in Routes :
    LET out == perform_dca_purchase(state, now, sender, id, hops, "wrap")
        order == state.dca_requests[id]
        owner == order.user
        info == order.initial_asset.info
        router == state.config.router_addr
        n == Len(out.msgs)
        swap == out.msgs[n - 1]
        tip == out.msgs[n]
        debited(a) == JarBalance(state, owner, a) - JarBalance(out.st, owner, a)
    IN out.err = "Ok" =>
         /\ n = (IF info.kind = "token" THEN 3 ELSE 2)
         /\ info.kind = "token" =>
              out.msgs[1] = [kind |-> "cw20_transfer_from", contract |-> info.id,
                             from |-> owner, to |-> router, info |-> info,
                             amount |-> order.dca_amount, hops |-> NoHops, spread |-> None]
         /\ swap.kind = "execute_swap_operations"
         /\ swap.contract = router
         /\ swap.hops = hops
         /\ swap.spread = (IF order.max_spread # None THEN order.max_spread
                           ELSE state.config.max_spread)
         /\ swap.to = owner
         /\ IF info.kind = "native"
            THEN swap.info = info /\ swap.amount = order.dca_amount
            ELSE swap.info = NoInfo /\ swap.amount = 0
         /\ tip.kind = (IF tip.info.kind = "native" THEN "bank_send" ELSE "cw20_transfer")
         /\ tip.contract = (IF tip.info.kind = "native" THEN "bank" ELSE tip.info.id)
         /\ tip.to = sender
         /\ tip.amount > 0
         /\ \A a \in AssetInfos : debited(a) = (IF a = tip.info THEN tip.amount ELSE 0)
         /\ sender # owner => (swap.to # sender /\ tip.to # owner)

\* A stranger has bought from a token order with a max_spread of its own, and was paid
\* the tip in the token: transfer-from, swap and tip were emitted.
C17_Witness ==
  /\ res.op = "perform_dca_purchase" /\ res.err = "Ok"
  /\ Len(res.msgs) = 3
  /\ res.msgs[1].kind = "cw20_transfer_from"
  /\ res.msgs[2].kind = "execute_swap_operations"
  /\ res.msgs[2].spread = 2
  /\ res.msgs[3].kind = "cw20_transfer"
  /\ res.msgs[3].to = res.sender
  /\ res.msgs[2].to # res.sender

\* A purchase of order id over hops that gets as far as the tip payment: the route passes
\* the route checks and ends at the target, the order is due and holds dca_amount.
ReachesTipPayment(id, hops) ==
  /\ PassesRouteChecks(state.config, HopLimit(state, id), hops)
  /\ hops[Len(hops)].ask = state.dca_requests[id].target_asset
  /\ PurchaseIsDue(id)
  /\ state.dca_requests[id].dca_amount <= state.dca_requests[id].initial_asset.amount

\* The jars after entry j has paid `cost`: the entry reduced, or dropped when emptied, the
\* others as they were and in their order.
JarsAfterPayment(jars, j, cost) ==
  IF jars[j].amount = cost
  THEN [k \in 1..(Len(jars) - 1) |-> IF k < j THEN jars[k] ELSE jars[k + 1]]
  ELSE [k \in 1..Len(jars) |-> IF k = j THEN AssetOf(jars[k].info, jars[k].amount - cost) ELSE jars[k]]

\* C18 as stated: a purchase that gets as far as the tip payment pays from the first entry
\* of the owner's jars, in stored order, whose asset is a whitelisted tip asset and whose
\* balance is at least per_hop_fee * hops, and from that entry alone; when there is no such
\* entry it fails with InsufficientTipBalance (NoTipBalance when the owner has no jars
\* stored) and changes nothing.
C18_FirstCoveringEntryPays ==
  \A id \in DOMAIN state.dca_requests, sender \in Users, hops \in AstroRoutes :
    LET out == perform_dca_purchase(state, now, sender, id, hops, "wrap")
        owner == state.dca_requests[id].user
        jars == state.tip_jars[owner]
        n == Len(hops)
        covering == {j \in 1..Len(jars) : /\ TipFee(state, jars[j].info) # None
                                          /\ TipFee(state, jars[j].info) * n <= jars[j].amount}
        first == CHOOSE j \in covering : \A k \in covering : j <= k
    IN ReachesTipPayment(id, hops) =>
         IF owner \notin DOMAIN state.tip_jars THEN out = Err(state, "NoTipBalance")
         ELSE IF covering = {} THEN out = Err(state, "InsufficientTipBalance")
         ELSE /\ out.err = "Ok"
              /\ out.st.tip_jars
                   = [state.tip_jars EXCEPT
                        ![owner] = JarsAfterPayment(jars, first, TipFee(state, jars[first].info) * n)]

\* C18: a purchase that gets as far as the tip payment walks the owner's jars in stored
\* order, skipping the entries whose asset is not a whitelisted tip asset and those whose
\* balance is below per_hop_fee * hops, and pays exactly per_hop_fee * hops from the first
\* entry that covers it, from that entry alone: the entries before it and all others stay
\* as they are (the paying entry is dropped when emptied).  When it comes first to a
\* whitelisted entry whose per_hop_fee * hops does not fit 128 bits it fails with an
\* arithmetic error; when no entry covers the fee it fails with InsufficientTipBalance
\* (NoTipBalance when the owner has no jars stored).  A failed purchase changes neither the
\* order nor the jars.
C18_FirstCoveringEntryOrOverflow ==
  \A id \in DOMAIN state.dca_requests, sender \in Users, hops \in AstroRoutes :
    LET out == perform_dca_purchase(state, now, sender, id, hops, "wrap")
        owner == state.dca_requests[id].user
        jars == state.tip_jars[owner]
        n == Len(hops)
        listed(j) == TipFee(state, jars[j].info) # None
        cost(j) == TipFee(state, jars[j].info) * n
        stops == {j \in 1..Len(jars) : listed(j) /\ (cost(j) <= jars[j].amount \/ cost(j) > U128Max)}
        first == CHOOSE j \in stops : \A k \in stops : j <= k
    IN ReachesTipPayment(id, hops) =>
         IF owner \notin DOMAIN state.tip_jars THEN out = Err(state, "NoTipBalance")
         ELSE IF stops = {} THEN out = Err(state, "InsufficientTipBalance")
         ELSE IF cost(first) > U128Max THEN out = Err(state, "OverflowError")
         ELSE /\ out.err = "Ok"
              /\ out.st.tip_jars = [state.tip_jars EXCEPT ![owner] = JarsAfterPayment(jars, first, cost(first))]
              /\ out.msgs[Len(out.msgs)] = asset_transfer(jars[first].info, cost(first), sender)

\* A purchase over MaxRouteLen hops was paid in the token from the second entry of the
\* owner's jars, whose first entry, in the whitelisted native asset, did not cover the fee
\* and is still there.
C18_Witness ==
  /\ res.op = "perform_dca_purchase" /\ res.err = "Ok"
  /\ LET swap == res.msgs[Len(res.msgs) - 1]
         tip == res.msgs[Len(res.msgs)]
         jars == state.tip_jars[swap.to]
     IN /\ Len(swap.hops) = MaxRouteLen
        /\ tip.info = TOK
        /\ Len(jars) >= 1
        /\ jars[1].info = ULUNA
        /\ TipFee(state, ULUNA) # None
        /\ jars[1].amount < TipFee(state, ULUNA) * Len(swap.hops)

\* The CreateDcaOrder messages of the claims about create: either asset on each side,
\* amounts up to MaxDeposit, a start_purchase that is absent or anywhere on the clock.
CreateRequests ==
  [initial_asset : {AssetOf(i, a) : i \in AssetInfos, a \in 0..MaxDeposit},
   target_asset : AssetInfos, interval : {1}, dca_amount : 0..MaxDeposit,
   start_purchase : {None} \cup 0..MaxTime, max_hops : {None}, max_spread : {None}]

\* C19: create_dca_order makes its checks in the order start time, duplicate asset, deposit
\* too small, divisibility, funding, and fails with the error of the first one the request
\* violates: StartTimeInPast, DuplicateAsset, DepositTooSmall, IndivisibleDeposit (the
\* division error when dca_amount is 0), and for the funding InvalidTokenDeposit for a token
\* (the error of the coin comparison for a native asset).  A failed create stores no order
\* and leaves the id counter (and everything else) as it was.
C19_CreateChecksInOrder ==
  \A m \in CreateRequests, deposit \in 0..MaxDeposit :
    LET out == create_dca_order(state, now, "alice", deposit, deposit, m)
        amount == m.initial_asset.amount
        first ==
          IF m.start_purchase # None /\ m.start_purchase < now THEN "StartTimeInPast"
          ELSE IF m.initial_asset.info = m.target_asset THEN "DuplicateAsset"
          ELSE IF m.dca_amount > amount THEN "DepositTooSmall"
          ELSE IF m.dca_amount = 0 THEN "DivideByZero"
          ELSE IF amount % m.dca_amount # 0 THEN "IndivisibleDeposit"
          ELSE IF m.initial_asset.info.kind = "native" /\ deposit # amount
               THEN "NativeTokenMismatch"
          ELSE IF m.initial_asset.info.kind = "token" /\ deposit < amount
               THEN "InvalidTokenDeposit"
          ELSE "Ok"
    IN /\ out.err = first
       /\ out.err # "Ok" => /\ out.st = state
                            /\ out.st.dca_id = state.dca_id
                            /\ out.st.dca_requests = state.dca_requests
                            /\ out.msgs = <<>>

\* A create with a start_purchase in the past has failed with StartTimeInPast and nothing
\* is stored, in a state in which a request that is late, names one asset twice, asks for
\* purchases larger than the deposit and is not funded fails with StartTimeInPast too.
C19_Witness ==
  /\ res.op = "create_dca_order" /\ res.err = "StartTimeInPast"
  /\ state.dca_id = 0 /\ state.dca_requests = EmptyMap
  /\ assigned = <<>>
  /\ create_dca_order(state, now, "alice", 0, 0,
                      [initial_asset |-> AssetOf(ULUNA, 1), target_asset |-> ULUNA,
                       interval |-> 1, dca_amount |-> MaxAmount, start_purchase |-> now - 1,
                       max_hops |-> None, max_spread |-> None])
       = Err(state, "StartTimeInPast")

\* C20: create_dca_order with a native initial asset succeeds only if the coins of its
\* denom attached to the call equal initial_asset.amount, whatever the allowance; with a
\* token initial asset it succeeds only if the allowance the token reports for the caller is
\* at least initial_asset.amount, whatever coins are attached, and a request that passes the
\* checks before the funding fails with InvalidTokenDeposit when the allowance is smaller.
\* A request that passes the other checks and is funded in this way succeeds.
C20_FundingOfCreate ==
  \A m \in {r \in CreateRequests : r.start_purchase \in {None, now}},
     funds \in 0..MaxDeposit, allowance \in 0..MaxDeposit :
    LET out == create_dca_order(state, now, "alice", funds, allowance, m)
        amount == m.initial_asset.amount
        native == m.initial_asset.info.kind = "native"
        funded == IF native THEN funds = amount ELSE allowance >= amount
        passes == /\ m.start_purchase = None \/ m.start_purchase >= now
                  /\ m.initial_asset.info # m.target_asset
                  /\ m.dca_amount > 0 /\ m.dca_amount <= amount
                  /\ amount % m.dca_amount = 0
    IN /\ out.err = "Ok" => funded
       /\ (passes /\ funded) => out.err = "Ok"
       /\ (passes /\ ~funded) =>
            /\ out.st = state
            /\ out.err = (IF native THEN "NativeTokenMismatch" ELSE "InvalidTokenDeposit")

\* A create of a token order has failed with InvalidTokenDeposit and stored nothing.
C20_Witness ==
  /\ res.op = "create_dca_order" /\ res.err = "InvalidTokenDeposit"
  /\ state.dca_id = 0 /\ state.dca_requests = EmptyMap

ModifyRequests(id) ==
  [id : {id}, new_initial_asset : {AssetOf(i, a) : i \in AssetInfos, a \in 0..MaxAmount},
   new_target_asset : AssetInfos, new_interval : {2}, new_dca_amount : 0..MaxAmount,
   should_reset_purchase_time : BOOLEAN, start_purchase : {None, 1, MaxTime},
   max_hops : {None, 1}, max_spread : {None, 2}]

\* C22: a successful modify that replaces the initial asset by one with another asset-info
\* emits exactly one refund of the old remaining amount to the owner when the old initial
\* asset was native (and the amount is not zero), and no transfer when it was a token; and
\* it succeeds only if the new asset is funded in full: attached coins equal to the new
\* amount for a native asset, an allowance equal to the new amount for a token.
C22_ReplacedAssetIsRefunded ==
  \A id \in DOMAIN state.dca_requests, funds \in 0..MaxAmount, allowance \in 0..MaxAmount :
    \A m \in {r \in ModifyRequests(id) : r.start_purchase = None /\ r.max_hops = None
                                         /\ r.max_spread = None} :
      LET order == state.dca_requests[id]
          old == order.initial_asset
          new == m.new_initial_asset
          out == modify_dca_order(state, now, order.user, funds, allowance, m)
      IN (out.err = "Ok" /\ new.info # old.info) =>
           /\ IF new.info.kind = "native" THEN funds = new.amount ELSE allowance = new.amount
           /\ out.msgs = (IF old.info.kind = "native" /\ old.amount > 0
                          THEN <<BankSend(order.user, old.info.id, old.amount)>>
                          ELSE <<>>)

\* C23 as stated: a successful modify keeps the order's id and owner, keeps the previous
\* max_hops, max_spread and start_purchase where the request leaves them out, and keeps
\* last_purchase unless should_reset_purchase_time is set, which makes it 0.
C23_OmittedOptionsAreKept ==
  \A id \in DOMAIN state.dca_requests, deposit \in 0..MaxAmount : \A m \in ModifyRequests(id) :
    LET order == state.dca_requests[id]
        out == modify_dca_order(state, now, order.user, deposit, deposit, m)
        new == out.st.dca_requests[id]
    IN out.err = "Ok" =>
         /\ new.id = order.id /\ new.user = order.user
         /\ new.max_hops = (IF m.max_hops = None THEN order.max_hops ELSE m.max_hops)
         /\ new.max_spread = (IF m.max_spread = None THEN order.max_spread ELSE m.max_spread)
         /\ new.start_purchase
              = (IF m.start_purchase = None THEN order.start_purchase ELSE m.start_purchase)
         /\ new.last_purchase = (IF m.should_reset_purchase_time THEN 0 ELSE order.last_purchase)

\* C23: a successful modify keeps the order's id and owner and stores every parameter of
\* the request in place of the order's: initial asset, target, interval, dca_amount, and
\* max_hops, max_spread and start_purchase as given, an omitted one replacing the previous
\* value by none; last_purchase stays as it was unless should_reset_purchase_time is set,
\* which makes it 0.  No other order and nothing else of the state changes.
C23_ModifyReplacesTheParameters ==
  \A id \in DOMAIN state.dca_requests, deposit \in 0..MaxAmount : \A m \in ModifyRequests(id) :
    LET order == state.dca_requests[id]
        out == modify_dca_order(state, now, order.user, deposit, deposit, m)
        new == out.st.dca_requests[id]
    IN out.err = "Ok" =>
         /\ new.id = order.id /\ new.user = order.user
         /\ new.initial_asset = m.new_initial_asset
         /\ new.target_asset = m.new_target_asset
         /\ new.interval = m.new_interval
         /\ new.dca_amount = m.new_dca_amount
         /\ new.max_hops = m.max_hops
         /\ new.max_spread = m.max_spread
         /\ new.start_purchase = m.start_purchase
         /\ new.last_purchase = (IF m.should_reset_purchase_time THEN 0 ELSE order.last_purchase)
         /\ DOMAIN out.st.dca_requests = DOMAIN state.dca_requests
         /\ \A other \in DOMAIN state.dca_requests \ {id} :
              out.st.dca_requests[other] = state.dca_requests[other]
         /\ out.st.dca_id = state.dca_id
         /\ out.st.tip_jars = state.tip_jars
         /\ out.st.config = state.config

\* The owner has modified an order that had been bought from, without a reset: the order
\* keeps its id, its owner and the time of its last purchase.
C23_Witness ==
  /\ res.op = "modify_dca_order" /\ res.err = "Ok"
  /\ res.id \in DOMAIN state.dca_requests
  /\ purchases[res.id].modified
  /\ state.dca_requests[res.id].last_purchase > 0
  /\ state.dca_requests[res.id].user = res.sender
  /\ state.dca_requests[res.id].id = res.id

\* The requests of the modify claims about validation: amounts up to MaxDeposit, so that
\* a dca_amount that does not divide the new amount occurs (3 and 2).
RevalidatedRequests(id) ==
  [id : {id}, new_initial_asset : {AssetOf(i, a) : i \in AssetInfos, a \in 0..MaxDeposit},
   new_target_asset : AssetInfos, new_interval : {2}, new_dca_amount : 0..MaxDeposit,
   should_reset_purchase_time : BOOLEAN, start_purchase : {None, 1, MaxTime},
   max_hops : {None}, max_spread : {None}]

\* C24: a modify by the owner that passes the funding check and whose resulting order would
\* have a start_purchase before the block time, an initial asset equal to the target, a
\* dca_amount above the initial amount or an initial amount that dca_amount does not divide
\* fails with StartTimeInPast, DuplicateAsset, DepositTooSmall or IndivisibleDeposit (the
\* division error when dca_amount is 0), the first of them in this order when several
\* apply; a modify that fails, for these or any other reason, leaves the stored order, the
\* indices and everything else as they were and emits nothing.
C24_ModifyRevalidates ==
  \A id \in DOMAIN state.dca_requests, sender \in Users, deposit \in 0..MaxDeposit : \A m \in RevalidatedRequests(id) :
    LET order == state.dca_requests[id]
        out == modify_dca_order(state, now, sender, deposit, deposit, m)
        amount == m.new_initial_asset.amount
        invalid ==
          IF m.start_purchase # None /\ m.start_purchase < now THEN "StartTimeInPast"
          ELSE IF m.new_initial_asset.info = m.new_target_asset THEN "DuplicateAsset"
          ELSE IF m.new_dca_amount > amount THEN "DepositTooSmall"
          ELSE IF m.new_dca_amount = 0 THEN "DivideByZero"
          ELSE IF amount % m.new_dca_amount # 0 THEN "IndivisibleDeposit"
          ELSE "Ok"
    IN /\ invalid # "Ok" => out.err # "Ok"
       /\ (invalid # "Ok" /\ sender = order.user
           /\ ModifyFunding(order, m.new_initial_asset, deposit, deposit) = "Ok")
          => out.err = invalid
       /\ out.err # "Ok" => (out.st = state /\ out.msgs = <<>>)

\* A modify by the owner, with a start time that has passed, has failed with
\* StartTimeInPast, and the order is stored as it was created, without a start time.
C24_Witness ==
  /\ res.op = "modify_dca_order" /\ res.err = "StartTimeInPast"
  /\ res.id \in DOMAIN state.dca_requests
  /\ state.dca_requests[res.id].user = res.sender
  /\ ~purchases[res.id].modified
  /\ state.dca_requests[res.id].start_purchase = None
  /\ now > 1

\* The tips add_bot_tip is called with in the claims about it.
TipRequests == {AssetOf(i, a) : i \in AssetInfos, a \in 0..MaxAmount}

\* The effect of a tip on the ledgers: the sender's balance of the asset grows by the amount,
\* in place when the entry exists and as a new last entry when it does not; every other
\* entry, every other owner's ledger and the rest of the state are as before.
Credited(st, sender, asset) ==
  LET jars == IF sender \in DOMAIN st.tip_jars THEN st.tip_jars[sender] ELSE <<>>
      held == \E j \in 1..Len(jars) : jars[j].info = asset.info
      after == IF held
               THEN [j \in 1..Len(jars) |->
                       IF jars[j].info = asset.info
                       THEN AssetOf(asset.info, jars[j].amount + asset.amount) ELSE jars[j]]
               ELSE jars \o <<asset>>
  IN [st EXCEPT !.tip_jars = [u \in DOMAIN st.tip_jars \cup {sender} |->
                                IF u = sender THEN after ELSE st.tip_jars[u]]]

\* C25 as stated: every tip with a positive amount of a whitelisted asset is credited.
C25_EveryTipIsCredited ==
  \A sender \in Users, asset \in TipRequests :
    LET out == add_bot_tip(state, sender, asset)
        listed == \E j \in 1..Len(state.whitelisted_tip_tokens) :
                    state.whitelisted_tip_tokens[j].info = asset.info
    IN (asset.amount > 0 /\ listed) => (out.err = "Ok" /\ out.st = Credited(state, sender, asset))

\* C25: a tip of amount zero fails with InvalidZeroAmount, whatever the asset; a positive
\* tip of an asset that is not a whitelisted tip asset fails with InvalidBotTipToken; a
\* positive tip of a whitelisted asset whose sum with the sender's balance of that asset
\* exceeds the 128-bit amount type fails with the overflow error; every failure leaves the
\* state unchanged.  Every other tip succeeds without a message and adds exactly its amount
\* to the sender's balance of exactly that asset, creating the entry when it is absent,
\* and changes no other entry of any owner and nothing else of the state.
C25_TipIsCreditedOrOverflows ==
  \A sender \in Users, asset \in TipRequests :
    LET out == add_bot_tip(state, sender, asset)
        listed == \E j \in 1..Len(state.whitelisted_tip_tokens) :
                    state.whitelisted_tip_tokens[j].info = asset.info
        balance == JarBalance(state, sender, asset.info)
    IN IF asset.amount = 0 THEN out = Err(state, "InvalidZeroAmount")
       ELSE IF ~listed THEN out = Err(state, "InvalidBotTipToken")
       ELSE IF balance + asset.amount > U128Max THEN out = Err(state, "Overflow")
       ELSE /\ out.err = "Ok" /\ out.msgs = <<>>
            /\ out.st = Credited(state, sender, asset)
            /\ JarBalance(out.st, sender, asset.info) = balance + asset.amount
            /\ \A u \in Users, a \in AssetInfos :
                 <<u, a>> # <<sender, asset.info>> => JarBalance(out.st, u, a) = JarBalance(state, u, a)

\* A tip has been added to an entry that existed: the sender holds more of the asset than
\* the tip, next to an entry of the other asset.
C25_Witness ==
  /\ res.op = "add_bot_tip" /\ res.err = "Ok" /\ res.asset.amount > 0
  /\ res.sender \in DOMAIN state.tip_jars
  /\ Len(state.tip_jars[res.sender]) = 2
  /\ JarBalance(state, res.sender, res.asset.info) > res.asset.amount

\* The lists of assets withdraw is called with in the claims about it: up to two assets,
\* the same asset twice included.
WithdrawRequests == AssetLists(AssetInfos, 0..MaxAmount, 2)

\* What a list asks of one asset in total.
RECURSIVE Requested(_, _)
Requested(tips, a) ==
  IF tips = <<>> THEN 0
  ELSE (IF Head(tips).info = a THEN Head(tips).amount ELSE 0) + Requested(Tail(tips), a)

\* C26: a withdrawal of a list of assets is all-or-nothing.  When it fails, the error is
\* InsufficientTipWithdrawBalance, the state is unchanged and there is no message.  A list
\* that names no asset twice fails exactly when a listed asset has no entry in the caller's
\* ledger or is asked for more than its stored balance.  When it succeeds, there is exactly
\* one transfer per element of the list, in the order of the list, of the asked asset and
\* amount to the caller; the caller's balance of every asset has decreased by exactly what
\* the list asks of it; an entry that reaches zero is removed; the remaining entries keep
\* their order; the ledgers of the other owners and the rest of the state are unchanged.
C26_WithdrawIsAllOrNothing ==
  \A sender \in Users, tips \in WithdrawRequests :
    LET out == withdraw(state, sender, tips)
        jars == IF sender \in DOMAIN state.tip_jars THEN state.tip_jars[sender] ELSE <<>>
        held(a) == \E j \in 1..Len(jars) : jars[j].info = a
        distinct == \A j, k \in 1..Len(tips) : j # k => tips[j].info # tips[k].info
        short == \E k \in 1..Len(tips) :
                   ~held(tips[k].info) \/ tips[k].amount > JarBalance(state, sender, tips[k].info)
        left == SelectSeq(jars, LAMBDA e : e.info \notin {tips[k].info : k \in 1..Len(tips)}
                                           \/ e.amount > Requested(tips, e.info))
    IN /\ out.err \in {"Ok", "InsufficientTipWithdrawBalance"}
       /\ out.err # "Ok" => (out.st = state /\ out.msgs = <<>>)
       /\ distinct => (out.err # "Ok" <=> short)
       /\ out.err = "Ok" =>
            /\ out.msgs = [k \in 1..Len(tips) |-> asset_transfer(tips[k].info, tips[k].amount, sender)]
            /\ \A a \in AssetInfos :
                 JarBalance(out.st, sender, a) = JarBalance(state, sender, a) - Requested(tips, a)
            /\ out.st = [state EXCEPT !.tip_jars = MapPut(@, sender,
                           [j \in 1..Len(left) |->
                              AssetOf(left[j].info, left[j].amount - Requested(tips, left[j].info))])]

\* A part of a balance has been withdrawn: one transfer to the caller, whose ledger still
\* holds the rest of that asset.
C26_Witness ==
  /\ res.op = "withdraw" /\ res.err = "Ok" /\ Len(res.msgs) = 1
  /\ res.msgs[1].to = res.sender /\ res.msgs[1].amount > 0
  /\ JarBalance(state, res.sender, res.msgs[1].info) > 0

Omitted == [some |-> FALSE]
ConfigRequests ==
  [max_hops : {Omitted} \cup {Some(h) : h \in 1..MaxRouteLen},
   whitelisted_tokens : {Omitted} \cup {Some(w) : w \in {<<>>, <<TOK>>, <<ULUNA, TOK>>}},
   max_spread : {Omitted} \cup {Some(2)},
   tips : {Omitted} \cup {Some(t) : t \in TipWhitelists \cup {<<TipAssetInfo(ULUNA, 0)>>}}]

\* C28: UpdateConfig from any sender other than the owner of the factory fails with
\* Unauthorized and changes nothing (the configuration, the whitelisted tip assets and the
\* rest of the state are as before), whatever fields it supplies: none, some, or a list of
\* tips that would be rejected.
C28_OnlyTheFactoryOwnerConfigures ==
  \A sender \in (Users \cup {"factory", "dca"}) \ {FactoryOwner}, c \in ConfigRequests :
    update_config(state, sender, FactoryOwner, c.max_hops, c.whitelisted_tokens, c.max_spread, c.tips)
      = Err(state, "Unauthorized")

\* An owner of orders, who is not the owner of the factory, has tried to update the
\* configuration: the call failed with Unauthorized and the configuration is the initial one.
C28_Witness ==
  /\ res.op = "update_config" /\ res.err = "Unauthorized" /\ res.sender # FactoryOwner
  /\ state.config = InitState.config
  /\ state.whitelisted_tip_tokens = InitState.whitelisted_tip_tokens
  /\ state.dca_requests # EmptyMap

\* C29: UpdateConfig from the owner of the factory, with no tip of fee zero, succeeds
\* without a message and sets exactly the supplied fields: max_hops, whitelisted_tokens and
\* max_spread of the configuration and the list of whitelisted tip assets take the
\* supplied value and keep their value when omitted; factory_addr, router_addr, every
\* stored order and its indices, every tip ledger and the id counter are unchanged.  With
\* a tip of fee zero it fails with InvalidTipAmount and changes nothing.
C29_ConfigChangesWhatIsSupplied ==
  \A c \in ConfigRequests :
    LET out == update_config(state, FactoryOwner, FactoryOwner, c.max_hops, c.whitelisted_tokens, c.max_spread, c.tips)
        pick(o, old) == IF o.some THEN o.v ELSE old
    IN IF c.tips.some /\ \E k \in 1..Len(c.tips.v) : c.tips.v[k].per_hop_fee = 0
       THEN out = Err(state, "InvalidTipAmount")
       ELSE /\ out.err = "Ok" /\ out.msgs = <<>>
            /\ out.st.config.max_hops = pick(c.max_hops, state.config.max_hops)
            /\ out.st.config.whitelisted_tokens = pick(c.whitelisted_tokens, state.config.whitelisted_tokens)
            /\ out.st.config.max_spread = pick(c.max_spread, state.config.max_spread)
            /\ out.st.whitelisted_tip_tokens = pick(c.tips, state.whitelisted_tip_tokens)
            /\ out.st.config.factory_addr = state.config.factory_addr
            /\ out.st.config.router_addr = state.config.router_addr
            /\ out.st.dca_requests = state.dca_requests
            /\ out.st.idx_user = state.idx_user
            /\ out.st.idx_user_asset = state.idx_user_asset
            /\ out.st.tip_jars = state.tip_jars
            /\ out.st.dca_id = state.dca_id

\* The owner of the factory has replaced the whitelisted tip assets while an order and a
\* tip ledger exist; max_hops is the initial one.
C29_Witness ==
  /\ res.op = "update_config" /\ res.err = "Ok" /\ res.sender = FactoryOwner
  /\ state.whitelisted_tip_tokens # InitState.whitelisted_tip_tokens
  /\ state.config = InitState.config
  /\ state.dca_requests # EmptyMap
  /\ \E u \in DOMAIN state.tip_jars : state.tip_jars[u] # <<>>

\* The routes of the claim about the limit on hops: every route of up to MaxRouteLen hops
\* and routes of one hop more.
HopRoutes == Routes \cup {r \o <<h>> : r \in {x \in Routes : Len(x) = MaxRouteLen}, h \in {AstroSwap(ULUNA, TOK)}}

\* C30: a purchase of a stored order over a route of one hop at least fails with
\* MaxHopsAssertion exactly when the route has more hops than the order's max_hops, or
\* than the contract's max_hops when the order has none; the error carries the number of
\* hops of the route and the state is unchanged.  A route as long as the limit passes
\* this check, also when the order's max_hops is above the contract's.
C30_HopsWithinTheLimit ==
  \A id \in DOMAIN state.dca_requests, bot \in Users, hops \in HopRoutes \ {<<>>} :
    LET order == state.dca_requests[id]
        out == perform_dca_purchase(state, now, bot, id, hops, "wrap")
        limit == IF order.max_hops = None THEN state.config.max_hops ELSE order.max_hops
    IN IF Len(hops) > limit
       THEN out = [err |-> "MaxHopsAssertion", st |-> state, msgs |-> <<>>, event |-> "",
                   hops |-> Len(hops)]
       ELSE out.err # "MaxHopsAssertion"

\* An order whose max_hops of MaxRouteLen is above the contract's max_hops of one has been
\* bought from over a route of MaxRouteLen hops.
C30_Witness ==
  /\ res.op = "perform_dca_purchase" /\ res.err = "Ok"
  /\ \E k \in 1..Len(res.msgs) : Len(res.msgs[k].hops) = MaxRouteLen
  /\ res.id \in DOMAIN state.dca_requests
  /\ state.dca_requests[res.id].max_hops = MaxRouteLen
  /\ state.config.max_hops = 1
  /\ purchases[res.id].count > 0

\* C31 as stated: a successful purchase of an order whose initial asset is native returns
\* three messages.
C31_NativePurchaseHasThreeMessages ==
  \A id \in DOMAIN state.dca_requests, sender \in Users, hops \in AstroRoutes :
    LET out == perform_dca_purchase(state, now, sender, id, hops, "wrap")
    IN (out.err = "Ok" /\ is_native_token(state.dca_requests[id].initial_asset.info))
       => Len(out.msgs) = 3

\* C31: a successful purchase of an order whose initial asset is native returns exactly two
\* messages: first the swap request to the router, which carries dca_amount of the initial
\* asset as its coins, then the payment of the tip to the caller; there is no separate
\* transfer of the coins.  Only an order whose initial asset is a token has three: the
\* transfer-from of dca_amount to the router, the swap request without coins, the tip.
C31_NativePurchaseHasTwoMessages ==
  \A id \in DOMAIN state.dca_requests, sender \in Users, hops \in AstroRoutes :
    LET out == perform_dca_purchase(state, now, sender, id, hops, "wrap")
        order == state.dca_requests[id]
        info == order.initial_asset.info
        kinds == [k \in 1..Len(out.msgs) |-> out.msgs[k].kind]
    IN out.err = "Ok" =>
         IF info.kind = "native"
         THEN /\ Len(out.msgs) = 2
              /\ kinds[1] = "execute_swap_operations"
              /\ out.msgs[1].contract = state.config.router_addr
              /\ out.msgs[1].info = info /\ out.msgs[1].amount = order.dca_amount
              /\ kinds[2] \in {"bank_send", "cw20_transfer"}
              /\ out.msgs[2].to = sender
         ELSE /\ kinds[1] = "cw20_transfer_from"
              /\ kinds[2] = "execute_swap_operations"
              /\ out.msgs[2].info = NoInfo /\ out.msgs[2].amount = 0
              /\ Len(out.msgs) = 3
              /\ kinds[3] \in {"bank_send", "cw20_transfer"}
              /\ out.msgs[3].to = sender

\* An order with a native initial asset has been bought from: the swap request with the
\* coins, then the tip.
C31_Witness ==
  /\ res.op = "perform_dca_purchase" /\ res.err = "Ok"
  /\ Len(res.msgs) = 2
  /\ res.msgs[1].kind = "execute_swap_operations"
  /\ res.msgs[1].info.kind = "native" /\ res.msgs[1].amount > 0
  /\ res.msgs[2].to = res.sender

\* C32: an UpdateConfig of the factory's owner that replaces the whitelisted tip assets
\* leaves every tip ledger as it was, and afterwards every owner can still withdraw every
\* balance in full, whitelisted or not: the withdrawal of an entry's whole balance succeeds
\* with one transfer of that balance to the owner and removes the entry.  A purchase pays
\* its tip only in an asset that is a whitelisted tip asset in the state it runs in, so
\* never in a removed one.
C32_RemovedTipAssetStaysWithdrawable ==
  /\ \A c \in ConfigRequests :
       LET out == update_config(state, FactoryOwner, FactoryOwner, c.max_hops, c.whitelisted_tokens, c.max_spread, c.tips)
       IN out.err = "Ok" =>
            /\ out.st.tip_jars = state.tip_jars
            /\ \A u \in DOMAIN state.tip_jars : \A j \in 1..Len(state.tip_jars[u]) :
                 LET entry == state.tip_jars[u][j]
                     w == withdraw(out.st, u, <<entry>>)
                 IN /\ w.err = "Ok"
                    /\ w.msgs = <<asset_transfer(entry.info, entry.amount, u)>>
                    /\ JarBalance(w.st, u, entry.info) = 0
                    /\ Len(w.st.tip_jars[u]) = Len(state.tip_jars[u]) - 1
  /\ \A id \in DOMAIN state.dca_requests, sender \in Users, hops \in AstroRoutes :
       LET out == perform_dca_purchase(state, now, sender, id, hops, "wrap")
           tip == out.msgs[Len(out.msgs)]
           owner == state.dca_requests[id].user
       IN out.err = "Ok" =>
            /\ \E k \in 1..Len(state.whitelisted_tip_tokens) :
                 state.whitelisted_tip_tokens[k].info = tip.info
            /\ \A a \in AssetInfos :
                 (\A k \in 1..Len(state.whitelisted_tip_tokens) : state.whitelisted_tip_tokens[k].info # a)
                 => JarBalance(out.st, owner, a) = JarBalance(state, owner, a)

\* The native asset is no longer a whitelisted tip asset; an owner whose first ledger entry
\* is a balance of it has had an order bought from, and the tip was paid in the token.
C32_Witness ==
  /\ res.op = "perform_dca_purchase" /\ res.err = "Ok"
  /\ res.msgs[Len(res.msgs)].info = TOK
  /\ \A k \in 1..Len(state.whitelisted_tip_tokens) : state.whitelisted_tip_tokens[k].info # ULUNA
  /\ \E u \in DOMAIN state.tip_jars :
       /\ state.tip_jars[u] # <<>>
       /\ state.tip_jars[u][1].info = ULUNA
       /\ state.tip_jars[u][1].amount > 0

\* C33: in every reachable state every entry of every tip ledger has a positive amount: a
\* tip of zero is never stored, and an entry that a purchase or a withdrawal brings to
\* zero is removed by that call.
C33_NoEmptyTipEntry ==
  \A u \in DOMAIN state.tip_jars : \A j \in 1..Len(state.tip_jars[u]) :
    state.tip_jars[u][j].amount > 0

\* A purchase has been paid with all that an owner held of the tip's asset: what the owner
\* added and took out of that asset cancel out, and the ledger has no entry of it, while
\* it still has an entry of the other asset.
C33_Witness ==
  /\ res.op = "perform_dca_purchase" /\ res.err = "Ok"
  /\ res.msgs[Len(res.msgs)].amount > 0
  /\ \E u \in DOMAIN state.tip_jars :
       /\ tip_net[u][res.msgs[Len(res.msgs)].info] = 0
       /\ \A j \in 1..Len(state.tip_jars[u]) : state.tip_jars[u][j].info # res.msgs[Len(res.msgs)].info
       /\ state.tip_jars[u] # <<>>
       /\ u # res.sender

\* The ids of a set in ascending and in descending order (Order::Ascending, Order::Descending).
RECURSIVE Ascending(_)
Ascending(ids) ==
  IF ids = {} THEN <<>>
  ELSE LET least == CHOOSE x \in ids : \A y \in ids : x <= y
       IN <<least>> \o Ascending(ids \ {least})
RECURSIVE Descending(_)
Descending(ids) ==
  IF ids = {} THEN <<>>
  ELSE LET most == CHOOSE x \in ids : \A y \in ids : x >= y
       IN <<most>> \o Descending(ids \ {most})

\* queries::get_user_dca_orders: the keys of the by-owner index under the user, in
\* descending order, each loaded from the order store; the ids of the listing, or the
\* error of a load that fails.
get_user_dca_orders(st, user) ==
  LET keys == Descending({k[2] : k \in {x \in st.idx_user : x[1] = user}})
  IN IF \E j \in 1..Len(keys) : keys[j] \notin DOMAIN st.dca_requests
     THEN [err |-> "NotFound", ids |-> <<>>]
     ELSE [err |-> "Ok", ids |-> [j \in 1..Len(keys) |-> st.dca_requests[keys[j]].id]]

\* queries::get_user_asset_dca_orders, without a cursor and within the limit: the entries
\* of the by-(owner, asset) index under (user, asset), in ascending order of id.
get_user_asset_dca_orders(st, user, asset) ==
  LET keys == Ascending({k[3] : k \in {x \in st.idx_user_asset :
                                         x[1] = user /\ x[2] = to_string(asset)}})
  IN IF \E j \in 1..Len(keys) : keys[j] \notin DOMAIN st.dca_requests
     THEN [err |-> "NotFound", ids |-> <<>>]
     ELSE [err |-> "Ok", ids |-> [j \in 1..Len(keys) |-> st.dca_requests[keys[j]].id]]

\* The two indexes hold exactly the keys of the stored orders.
IndexesAgreeWithStore ==
  /\ state.idx_user = {UserIndexKey(state.dca_requests[id]) : id \in DOMAIN state.dca_requests}
  /\ state.idx_user_asset = {UserAssetIndexKey(state.dca_requests[id]) : id \in DOMAIN state.dca_requests}
  /\ \A id \in DOMAIN state.dca_requests : state.dca_requests[id].id = id

\* C34 as stated: the indexes agree with the order store, the listing of a user is exactly
\* the stored orders of that user and the listing of a user and an asset exactly the
\* stored orders of that user with that initial asset, both in ascending order of id.
C34_ListingsAscendAndAgree ==
  /\ IndexesAgreeWithStore
  /\ \A user \in Users :
       /\ get_user_dca_orders(state, user)
            = [err |-> "Ok",
               ids |-> Ascending({id \in DOMAIN state.dca_requests :
                                    state.dca_requests[id].user = user})]
       /\ \A asset \in AssetInfos :
            get_user_asset_dca_orders(state, user, asset)
              = [err |-> "Ok",
                 ids |-> Ascending({id \in DOMAIN state.dca_requests :
                                      /\ state.dca_requests[id].user = user
                                      /\ state.dca_requests[id].initial_asset.info = asset})]

\* C35 as stated: no sum or product of a purchase or of a tip wraps.  A purchase that
\* reaches the timing gate with last_purchase + interval above the 64-bit range fails with
\* an arithmetic error and changes nothing, in every build; a tip payment is exactly
\* per_hop_fee * number of hops, within the 128-bit range; a tip is either added exactly,
\* within the range, or fails with an arithmetic error and changes nothing.
C35_NoSumWraps ==
  /\ \A id \in DOMAIN state.dca_requests, hops \in Routes, build \in {"wrap", "panic"} :
       LET d == state.dca_requests[id]
           out == perform_dca_purchase(state, now, "bob", id, hops, build)
       IN (/\ d.last_purchase > 0
           /\ d.last_purchase + d.interval > U64Max
           /\ PassesRouteChecks(state.config, HopLimit(state, id), hops)
           /\ ~StartsLater(d, now))
          => (out.err \in {"OverflowError", "Overflow"} /\ out.st = state)
  /\ \A user \in Users, n \in 1..MaxRouteLen :
       LET paid == take_payment_from_tip_jar(state, user, n)
       IN IF paid.err = "Ok"
          THEN /\ paid.payment.amount = n * TipFee(state, paid.payment.info)
               /\ paid.payment.amount <= U128Max
          ELSE paid.st = state
  /\ \A sender \in Users, asset \in TipRequests :
       LET out == add_bot_tip(state, sender, asset)
       IN IF out.err = "Ok"
          THEN /\ JarBalance(out.st, sender, asset.info)
                    = JarBalance(state, sender, asset.info) + asset.amount
               /\ JarBalance(out.st, sender, asset.info) <= U128Max
          ELSE out.st = state

RECURSIVE CoinsOf(_)
CoinsOf(msgs) ==
  IF msgs = <<>> THEN 0
  ELSE (IF Head(msgs).info.kind = "native" /\ Head(msgs).kind \in {"bank_send", "execute_swap_operations"}
        THEN Head(msgs).amount ELSE 0) + CoinsOf(Tail(msgs))

\* The coins the contract holds for order id: the amount of a stored order whose initial
\* asset is native.
NativeHeld(st, id) ==
  IF id \in DOMAIN st.dca_requests /\ is_native_token(st.dca_requests[id].initial_asset.info)
  THEN st.dca_requests[id].initial_asset.amount ELSE 0

\* C37 as stated, call by call: what is held for an order before a successful call plus
\* the coins paid in with the call equals what is held for it afterwards plus the coins the
\* call sends out for it (to the router, or back to the owner); a create pays in the whole
\* amount, a cancel and an exhausting purchase leave nothing held.
C37_NativeFundsAreConserved ==
  /\ \A sender \in Users, deposit \in 0..MaxAmount, m \in CreateRequests :
       LET out == create_dca_order(state, now, sender, deposit, deposit, m)
       IN (out.err = "Ok" /\ is_native_token(m.initial_asset.info))
          => NativeHeld(out.st, out.st.dca_id) = deposit
  /\ \A id \in DOMAIN state.dca_requests, sender \in Users, hops \in Routes :
       LET out == perform_dca_purchase(state, now, sender, id, hops, "wrap")
       IN out.err = "Ok" =>
            NativeHeld(state, id)
              = NativeHeld(out.st, id) + CoinsOf(SubSeq(out.msgs, 1, Len(out.msgs) - 1))
  /\ \A id \in DOMAIN state.dca_requests :
       LET out == cancel_dca_order(state, state.dca_requests[id].user, id)
       IN /\ out.err = "Ok"
          /\ NativeHeld(out.st, id) = 0
          /\ NativeHeld(state, id) = CoinsOf(out.msgs)
  /\ \A id \in DOMAIN state.dca_requests, deposit \in 0..MaxAmount : \A m \in ModifyRequests(id) :
       LET out == modify_dca_order(state, now, state.dca_requests[id].user, deposit, deposit, m)
           paid == IF is_native_token(m.new_initial_asset.info) THEN deposit ELSE 0
       IN (out.err = "Ok" /\ m.start_purchase = None /\ m.max_hops = None /\ m.max_spread = None)
          => NativeHeld(state, id) + paid = NativeHeld(out.st, id) + CoinsOf(out.msgs)

\* The sum of the amounts of the stored orders of a user in a token.
RECURSIVE StoredIn(_, _, _, _)
StoredIn(st, user, info, ids) ==
  IF ids = {} THEN 0
  ELSE LET id == CHOOSE x \in ids : TRUE
           d == st.dca_requests[id]
       IN (IF d.user = user /\ d.initial_asset.info = info THEN d.initial_asset.amount ELSE 0)
          + StoredIn(st, user, info, ids \ {id})

\* C38 as stated: right after a successful create of an order in a token, the amounts of
\* the owner's stored orders in that token, the new one included, sum to no more than the
\* allowance the call has read.
C38_AllowanceCoversAllOrders ==
  \A sender \in Users, allowance \in 0..MaxDeposit, m \in CreateRequests :
    LET out == create_dca_order(state, now, sender, 0, allowance, m)
    IN (out.err = "Ok" /\ ~is_native_token(m.initial_asset.info))
       => StoredIn(out.st, sender, m.initial_asset.info, DOMAIN out.st.dca_requests) <= allowance

\* The frame of a purchase: up to MaxIds orders of two owners, each with a tip ledger
\* (alice credits hers by message, bob his through the token's hook), bought by either.
InputsFrame ==
  [InputsIds EXCEPT !.creators = Users, !.bots = Users,
                    !.hook_callers = {"tok"}, !.hook_senders = {"bob"}]

NextFrame == Next(InputsFrame)
SpecFrame == Init /\ [][NextFrame]_vars

\* C39: a PerformDcaPurchase on order id, successful or not, leaves every other order,
\* the indexes of every other order, every tip ledger but the one of the order's owner
\* (the caller's included, when the caller is not the owner), the configuration, the tip
\* whitelist and the id counter as they were.
C39_PurchaseFrame ==
  \A sender \in Users, id \in 1..MaxIds, hops \in DirectRoutes, build \in {"wrap", "panic"} :
    LET out == perform_dca_purchase(state, now, sender, id, hops, build)
        st2 == out.st
        owners == {state.dca_requests[i].user : i \in DOMAIN state.dca_requests \cap {id}}
    IN /\ st2.config = state.config
       /\ st2.whitelisted_tip_tokens = state.whitelisted_tip_tokens
       /\ st2.dca_id = state.dca_id
       /\ DOMAIN st2.dca_requests \ {id} = DOMAIN state.dca_requests \ {id}
       /\ \A i \in DOMAIN state.dca_requests \ {id} : st2.dca_requests[i] = state.dca_requests[i]
       /\ {k \in st2.idx_user : k[2] # id} = {k \in state.idx_user : k[2] # id}
       /\ {k \in st2.idx_user_asset : k[3] # id} = {k \in state.idx_user_asset : k[3] # id}
       /\ DOMAIN st2.tip_jars \ owners = DOMAIN state.tip_jars \ owners
       /\ \A u \in DOMAIN state.tip_jars \ owners : st2.tip_jars[u] = state.tip_jars[u]

\* A stranger to the order has just bought for it, paid out of the owner's ledger, while a
\* second order is stored and the stranger holds a tip ledger of their own.
C39_Witness ==
  /\ res.op = "perform_dca_purchase" /\ res.err = "Ok"
  /\ \E j \in 1..Len(res.msgs) :
        res.msgs[j].kind = "execute_swap_operations" /\ res.msgs[j].to # res.sender
  /\ Cardinality(DOMAIN state.dca_requests \ {res.id}) >= 1
  /\ res.sender \in DOMAIN state.tip_jars
  /\ state.tip_jars[res.sender] # <<>>

\* C40: in every reachable state each owner's tip ledger holds at most one entry per tip
\* asset, and a credit of an asset the ledger holds leaves the number of entries as it
\* was, also after purchases and withdrawals have removed entries.
C40_OneEntryPerTipAsset ==
  /\ \A u \in DOMAIN state.tip_jars : \A i, j \in 1..Len(state.tip_jars[u]) :
       state.tip_jars[u][i].info = state.tip_jars[u][j].info => i = j
  /\ \A sender \in Users, info \in AssetInfos, amount \in 1..MaxAmount :
       LET out == add_bot_tip(state, sender, AssetOf(info, amount))
       IN (out.err = "Ok" /\ sender \in DOMAIN state.tip_jars
           /\ \E j \in 1..Len(state.tip_jars[sender]) : state.tip_jars[sender][j].info = info)
          => Len(out.st.tip_jars[sender]) = Len(state.tip_jars[sender])

\* The owner has just credited the native tip asset after a purchase was paid out of it:
\* the ledger had no entry of the asset left, and has one now, which holds the credit alone.
C40_Witness ==
  /\ res.op = "add_bot_tip" /\ res.err = "Ok" /\ res.asset.info = ULUNA
  /\ \E id \in DOMAIN purchases : purchases[id].count >= 1
  /\ \E j \in 1..Len(state.tip_jars[res.sender]) :
       /\ state.tip_jars[res.sender][j] = res.asset
       /\ \A k \in 1..Len(state.tip_jars[res.sender]) :
            state.tip_jars[res.sender][k].info = ULUNA => k = j

====
